---- MODULE Spec2Model ----
(***************************************************************************)
(* Watson: the concurrent probing engine (engine/mod.rs), the per-site     *)
(* detection policy (check_site_internal) and the email search of main.rs. *)
(*                                                                         *)
(* Strings are sequences of one-character strings; Option<T> is a sequence *)
(* of length 0 (None) or 1 (Some).                                         *)
(***************************************************************************)
EXTENDS Integers, Sequences, FiniteSets, TLC

\* ------------------------------------------------------------------ bounds
\* Number of catalog entries of a dispatcher run.
NumSites == 3
\* Largest concurrency ceiling tried (ceilings are 1..MaxCeiling).
MaxCeiling == 2
\* Longest response body enumerated.
MaxBodyLen == 2
\* Number of concurrent callers of the rate limiter.
NumCallers == 2
\* Largest delay tried, in clock ticks (delays are 0..MaxDelay).
MaxDelay == 3
\* The clock stops advancing at MaxClock.
MaxClock == 6

\* ------------------------------------------------------- program constants
OK == 200
NOT_FOUND == 404
FORBIDDEN == 403

\* ------------------------------------------------------------ Option<T>
None == <<>>
Some(x) == <<x>>
IsSome(o) == Len(o) = 1
IsNone(o) == Len(o) = 0
Unwrap(o) == o[1]

\* ------------------------------------------------------------- strings
\* str::contains: pat occurs in text as a contiguous substring.
Contains(text, pat) ==
    \E i \in 0..(Len(text) - Len(pat)) : SubSeq(text, i + 1, i + Len(pat)) = pat

\* str::replace: every non-overlapping occurrence of from (non-empty), scanned
\* left to right, is replaced by to; the inserted text is not rescanned.
RECURSIVE Replace(_, _, _)
Replace(s, from, to) ==
    IF Len(s) < Len(from) THEN s
    ELSE IF SubSeq(s, 1, Len(from)) = from
         THEN to \o Replace(SubSeq(s, Len(from) + 1, Len(s)), from, to)
         ELSE <<Head(s)>> \o Replace(Tail(s), from, to)

Placeholder == <<"{", "}">>

\* All strings over alphabet A of length at most n.
RECURSIVE StringsUpTo(_, _)
StringsUpTo(A, n) ==
    IF n = 0 THEN {<<>>}
    ELSE LET shorter == StringsUpTo(A, n - 1)
         IN  shorter \cup {Append(s, c) : s \in shorter, c \in A}

\* ------------------------------------------------------------ the regex crate
Lower == {"a", "b"}
Digit == {"1"}

\* Regex::new: the patterns of the model and whether they parse.
\*   "^[a-z]+$"  one or more lower-case letters, anchored
\*   "[0-9]"     a digit anywhere (is_match is an unanchored search)
\*   "["         an unclosed character class: a parse error
RegexPatterns == {"^[a-z]+$", "[0-9]", "["}
RegexNewOk(p) == p \in {"^[a-z]+$", "[0-9]"}

\* Regex::is_match.
IsMatch(p, u) ==
    CASE p = "^[a-z]+$" -> Len(u) >= 1 /\ \A i \in 1..Len(u) : u[i] \in Lower
      [] p = "[0-9]"    -> \E i \in 1..Len(u) : u[i] \in Digit
      [] OTHER          -> FALSE

\* ------------------------------------------------------------ data model
ErrorTypes == {"StatusCode", "Message", "Redirect", "ResponseUrl"}

\* ErrorMessages: Single(String) | Multiple(Vec<String>).
Single(s) == [tag |-> "Single", v |-> <<s>>]
Multiple(v) == [tag |-> "Multiple", v |-> v]

\* QueryResult constructors.
QueryResultNew(u, site_name, site_url, profile_url, status) ==
    [username |-> u, site_name |-> site_name, site_url |-> site_url,
     profile_url |-> profile_url, status |-> status,
     http_status |-> None, error_message |-> None, response_time_ms |-> None]

QueryResultClaimed(u, n, su, pu) == QueryResultNew(u, n, su, pu, "Claimed")
QueryResultAvailable(u, n, su, pu) == QueryResultNew(u, n, su, pu, "Available")
QueryResultError(u, n, su, pu, e) ==
    [QueryResultNew(u, n, su, pu, "Error") EXCEPT !.error_message = Some(e)]
QueryResultIllegal(u, n, su) == QueryResultNew(u, n, su, <<>>, "Illegal")

\* ------------------------------------------------ serde_json / reqwest values
\* request_payload is a serde_json::Value; the model has JSON strings and
\* one-member objects. Value::to_string serialises: a string gains its quotes.
JString(v) == [t |-> "string", k |-> <<>>, v |-> v]
JObject(k, v) == [t |-> "object", k |-> k, v |-> v]
Quote(v) == <<"\"">> \o v \o <<"\"">>
JsonToString(p) ==
    IF p.t = "string" THEN Quote(p.v)
    ELSE <<"{">> \o Quote(p.k) \o <<":">> \o Quote(p.v) \o <<"}">>

\* reqwest::Url: the final URL of a response, as parsed. Its to_string() is the
\* normalised serialisation: an empty path is written as "/".
Url(host, path) == [host |-> host, path |-> path]
UrlToString(url) == url.host \o (IF url.path = <<>> THEN <<"/">> ELSE url.path)

\* reqwest::Error as Display text (e.to_string()).
Faults == {"timeout", "connect"}
ErrToString(e) ==
    CASE e = "timeout" -> "operation timed out"
      [] e = "connect" -> "error trying to connect"
      [] OTHER         -> "error decoding response body"

\* ------------------------------------------------- check_site_internal
\* Variant of ValidationRejects: validation is skipped.
ValidationSkipped(info, u) == FALSE

\* Variant of ValidationRejects: a pattern that does not parse rejects too.
ValidationRejectsUnparsed(info, u) ==
    /\ IsSome(info.regex_check)
    /\ ~(RegexNewOk(Unwrap(info.regex_check)) /\ IsMatch(Unwrap(info.regex_check), u))

\* Validation: a pattern that is set, parses and does not match rejects.
ValidationRejects(info, u) ==
    /\ IsSome(info.regex_check)
    /\ RegexNewOk(Unwrap(info.regex_check))
    /\ ~IsMatch(Unwrap(info.regex_check), u)

ProfileUrl(info, u) == Replace(info.url, Placeholder, u)

ProbeUrl(info, u) ==
    Replace(IF IsSome(info.url_probe) THEN Unwrap(info.url_probe)
                                      ELSE ProfileUrl(info, u),
            Placeholder, u)

PayloadBody(info) ==
    IF IsSome(info.request_payload)
    THEN Some(JsonToString(Unwrap(info.request_payload)))
    ELSE None

\* Variant of SelectRequest: POST and PUT are sent without their payload.
SelectRequestDropsBody(info, u) ==
    LET rm  == info.request_method
        url == ProbeUrl(info, u)
    IN  IF rm = Some("POST") THEN [method |-> "POST", url |-> url, body |-> None]
        ELSE IF rm = Some("PUT") THEN [method |-> "PUT", url |-> url, body |-> None]
        ELSE IF rm = Some("HEAD") \/ rm = None
             THEN IF info.error_type = "StatusCode"
                  THEN [method |-> "HEAD", url |-> url, body |-> None]
                  ELSE [method |-> "GET", url |-> url, body |-> None]
        ELSE [method |-> "GET", url |-> url, body |-> None]

\* Method selection: the call made on the HttpClient.
SelectRequest(info, u) ==
    LET rm  == info.request_method
        url == ProbeUrl(info, u)
    IN  IF rm = Some("POST") THEN [method |-> "POST", url |-> url, body |-> PayloadBody(info)]
        ELSE IF rm = Some("PUT") THEN [method |-> "PUT", url |-> url, body |-> PayloadBody(info)]
        ELSE IF rm = Some("HEAD") \/ rm = None
             THEN IF info.error_type = "StatusCode"
                  THEN [method |-> "HEAD", url |-> url, body |-> None]
                  ELSE [method |-> "GET", url |-> url, body |-> None]
        ELSE [method |-> "GET", url |-> url, body |-> None]

\* Variant of DetectedMessage: Claimed unless every marker appears.
DetectedMessageAllMarkers(info, status, text) ==
    IF IsSome(text)
    THEN IF IsSome(info.error_msg)
         THEN LET msg_list == Unwrap(info.error_msg).v
              IN  ~ \A i \in 1..Len(msg_list) : Contains(Unwrap(text), msg_list[i])
         ELSE status = OK
    ELSE status = OK

\* The Message strategy once response.text() has resolved to text (an Option:
\* None when reading the body failed).
DetectedMessage(info, status, text) ==
    IF IsSome(text)
    THEN IF IsSome(info.error_msg)
         THEN LET msg_list == Unwrap(info.error_msg).v
              IN  ~ \E i \in 1..Len(msg_list) : Contains(Unwrap(text), msg_list[i])
         ELSE status = OK
    ELSE status = OK

\* Variant of Detected: under Redirect, only 404 counts as a miss.
DetectedRedirectOnly404(info, resp) ==
    CASE info.error_type = "StatusCode"  -> resp.status = OK
      [] info.error_type = "Message"     -> DetectedMessage(info, resp.status, resp.text)
      [] info.error_type = "Redirect"    -> resp.status # NOT_FOUND
      [] info.error_type = "ResponseUrl" ->
            IF IsSome(info.error_url)
            THEN UrlToString(resp.url) # Unwrap(info.error_url)
            ELSE resp.status = OK

\* Variant of Detected: under ResponseUrl, a miss URL is looked at only when
\* the status is 200.
DetectedResponseUrlNeedsOk(info, resp) ==
    CASE info.error_type = "StatusCode"  -> resp.status = OK
      [] info.error_type = "Message"     -> DetectedMessage(info, resp.status, resp.text)
      [] info.error_type = "Redirect"    -> resp.status # NOT_FOUND /\ resp.status # FORBIDDEN
      [] info.error_type = "ResponseUrl" ->
            IF IsSome(info.error_url)
            THEN resp.status = OK /\ UrlToString(resp.url) # Unwrap(info.error_url)
            ELSE resp.status = OK

\* Variant of Detected: under StatusCode, anything but 404 counts as Claimed.
DetectedStatusNotMissing(info, resp) ==
    CASE info.error_type = "StatusCode"  -> resp.status # NOT_FOUND
      [] info.error_type = "Message"     -> DetectedMessage(info, resp.status, resp.text)
      [] info.error_type = "Redirect"    -> resp.status # NOT_FOUND /\ resp.status # FORBIDDEN
      [] info.error_type = "ResponseUrl" ->
            IF IsSome(info.error_url)
            THEN UrlToString(resp.url) # Unwrap(info.error_url)
            ELSE resp.status = OK

\* Interpretation by strategy. resp = [status, url, text].
Detected(info, resp) ==
    CASE info.error_type = "StatusCode"  -> resp.status = OK
      [] info.error_type = "Message"     -> DetectedMessage(info, resp.status, resp.text)
      [] info.error_type = "Redirect"    -> resp.status # NOT_FOUND /\ resp.status # FORBIDDEN
      [] info.error_type = "ResponseUrl" ->
            IF IsSome(info.error_url)
            THEN UrlToString(resp.url) # Unwrap(info.error_url)
            ELSE resp.status = OK

\* Variant of OkResult: the result as the constructor left it.
OkResultBare(info, u, site_name, resp, elapsed) ==
    IF Detected(info, resp)
    THEN QueryResultClaimed(u, site_name, info.url_main, ProfileUrl(info, u))
    ELSE QueryResultAvailable(u, site_name, info.url_main, ProfileUrl(info, u))

\* The Ok(response) arm: the result built from the response.
OkResult(info, u, site_name, resp, elapsed) ==
    LET query_result ==
            IF Detected(info, resp)
            THEN QueryResultClaimed(u, site_name, info.url_main, ProfileUrl(info, u))
            ELSE QueryResultAvailable(u, site_name, info.url_main, ProfileUrl(info, u))
    IN  [query_result EXCEPT !.http_status = Some(resp.status),
                             !.response_time_ms = Some(elapsed)]

\* Variant of ErrResult: a transport fault reported as Available.
ErrResultAsAvailable(info, u, site_name, e) ==
    QueryResultAvailable(u, site_name, info.url_main, ProfileUrl(info, u))

\* The Err(e) arm.
ErrResult(info, u, site_name, e) ==
    QueryResultError(u, site_name, info.url_main, ProfileUrl(info, u), ErrToString(e))

IllegalResult(info, u, site_name) == QueryResultIllegal(u, site_name, info.url_main)

\* ---------------------------------------------------------------- inputs
\* SiteInfo; the arguments are url, url_main, error_type, error_msg, error_url,
\* regex_check, request_method, request_payload, url_probe, is_nsfw.
SiteInfo(url, um, et, em, eu, rc, rm, rp, up, nsfw) ==
    [url |-> url, url_main |-> um, error_type |-> et,
     error_msg |-> em, error_url |-> eu,
     regex_check |-> rc, request_method |-> rm,
     request_payload |-> rp, url_probe |-> up,
     is_nsfw |-> nsfw]

\* A scripted probe outcome: Ok(response) with its status, final URL and body
\* text (None: reading the body fails with err), or Err(err).
OkOutcome(status, url, text, elapsed) ==
    [kind |-> "Ok", status |-> status, url |-> url, text |-> text,
     err |-> "decode", elapsed |-> elapsed]
ErrOutcome(e, elapsed) ==
    [kind |-> "Err", status |-> 0, url |-> Url(<<>>, <<>>), text |-> None,
     err |-> e, elapsed |-> elapsed]

Usernames == {<<"a">>, <<"a", "1">>}

ProfileTemplate == <<"p", "/", "{", "}">>
ProbeTemplate == <<"q", "/", "{", "}">>
MainUrl == <<"m">>
HostUrl == <<"h">>

PlainInfo(error_type) ==
    SiteInfo(ProfileTemplate, MainUrl, error_type, None, None, None,
             None, None, None, None)

\* The fixtures of a dispatcher run, each a descriptor with the outcome the
\* network gives its probe: a plain StatusCode site that answers 200 (is_nsfw
\* unset), a Message site with a marker and a validation pattern whose body
\* holds the marker (is_nsfw false), and an adult-content site whose probe
\* times out.
Fixture(info, outcome) == [info |-> info, outcome |-> outcome]
Fixtures ==
    { Fixture(PlainInfo("StatusCode"),
              OkOutcome(OK, Url(HostUrl, <<>>), Some(<<"n">>), 5)),
      Fixture([PlainInfo("Message") EXCEPT !.error_msg = Some(Single(<<"n">>)),
                                           !.regex_check = Some("^[a-z]+$"),
                                           !.is_nsfw = Some(FALSE)],
              OkOutcome(NOT_FOUND, Url(HostUrl, <<>>), Some(<<"n">>), 7)),
      Fixture([PlainInfo("StatusCode") EXCEPT !.is_nsfw = Some(TRUE)],
              ErrOutcome("timeout", 9)) }

\* ------------------------------------------------------------- QueryStatus
Statuses == {"Claimed", "Available", "Error", "Illegal", "Unknown"}

\* ------------------------------------------------------------ SearchReport
\* The number of results of the collection that have the status.
RECURSIVE CountStatus(_, _)
CountStatus(rs, status) ==
    IF rs = <<>> THEN 0
    ELSE (IF Head(rs).status = status THEN 1 ELSE 0) + CountStatus(Tail(rs), status)

\* Variant of SearchReportNew: whatever is not claimed is counted available.
SearchReportNewRestAvailable(u, rs, tor_used) ==
    [username |-> u, total_sites |-> Len(rs),
     claimed_count |-> CountStatus(rs, "Claimed"),
     available_count |-> Len(rs) - CountStatus(rs, "Claimed"),
     error_count |-> CountStatus(rs, "Error"),
     results |-> rs, tor_used |-> tor_used]

\* SearchReport::new.
SearchReportNew(u, rs, tor_used) ==
    [username |-> u, total_sites |-> Len(rs),
     claimed_count |-> CountStatus(rs, "Claimed"),
     available_count |-> CountStatus(rs, "Available"),
     error_count |-> CountStatus(rs, "Error"),
     results |-> rs, tor_used |-> tor_used]

\* --------------------------------------------------------------- HttpClient
\* The user agent every request carries unless user agents are rotated, and
\* the list of the UserAgentRotator, of whose twenty entries the model keeps
\* two; the first entry of the list is the fixed user agent.
FixedUserAgent == "Chrome/120 Windows"
UserAgents == {"Chrome/120 Windows", "Firefox/121 Linux"}

\* The timeout, in seconds, of the client built for one call.
CallTimeout == 15

\* The proxy with_tor sets, and the proxy URLs given on the command line: one
\* that Proxy::all accepts and one it rejects.
TorProxy == "socks5://127.0.0.1:9050"
ProxyUrls == {"socks5://10.0.0.1:1080", "not a url"}
ProxyParses(proxy_url) == proxy_url # "not a url"

\* HttpClient::new: the base client has the run's timeout and a default user
\* agent, a random one of the list when user agents are rotated.
HttpClientsNew(timeout, rotate_ua) ==
    { [client |-> [timeout |-> timeout, user_agent |-> ua],
       proxy |-> None, use_tor |-> FALSE, rotate_ua |-> rotate_ua] :
      ua \in (IF rotate_ua THEN UserAgents ELSE {FixedUserAgent}) }

WithProxy(hc, proxy) == [hc EXCEPT !.proxy = Some(proxy)]
WithTor(hc) == [hc EXCEPT !.use_tor = TRUE, !.proxy = Some(TorProxy)]

\* get_user_agent: the user agents a call may get.
GetUserAgent(hc) == IF hc.rotate_ua THEN UserAgents ELSE {FixedUserAgent}

\* build_proxy_client_with_ua: a client through the proxy, if one is set and
\* Proxy::all accepts its URL.
BuildProxyClientWithUa(hc, ua) ==
    IF IsSome(hc.proxy) /\ ProxyParses(Unwrap(hc.proxy))
    THEN Some([proxy |-> hc.proxy, timeout |-> CallTimeout, user_agent |-> ua])
    ELSE None

\* The client get, head, post and put send the request with: the proxy client
\* if there is one, else a client of their own without a proxy.
CallClient(hc, ua) ==
    IF IsSome(BuildProxyClientWithUa(hc, ua))
    THEN Unwrap(BuildProxyClientWithUa(hc, ua))
    ELSE [proxy |-> None, timeout |-> CallTimeout, user_agent |-> ua]

\* Variant of HttpClientAfterCall: the call makes its user agent the default
\* of the base client.
HttpClientRemembersUa(hc, ua) == [hc EXCEPT !.client.user_agent = ua]

\* get, head, post and put take &self: the HttpClient after the call.
HttpClientAfterCall(hc, ua) == hc

\* ---------------------------------------------------------------------- Cli
\* The bounds main checks, and the defaults of the command line.
MinTimeout == 1
MaxTimeout == 300
MinConcurrent == 1
MaxConcurrent == 100
MaxUsernameLen == 50
DefaultTimeout == 15
DefaultMaxConcurrent == 50

\* Cli::parse without arguments (the options the model has).
DefaultCli ==
    [username |-> None, email |-> None, timeout |-> DefaultTimeout,
     max_concurrent |-> DefaultMaxConcurrent, nsfw |-> FALSE, tor |-> FALSE,
     proxy |-> None, rotate_ua |-> FALSE, rate_limit |-> None, list_sites |-> FALSE]

\* Variant of StartupError: only the upper end of the ceiling is checked.
StartupErrorNoLowerEnd(c) ==
    IF c.timeout < MinTimeout \/ c.timeout > MaxTimeout
    THEN Some("Error: Timeout must be between 1 and 300 seconds.")
    ELSE IF c.max_concurrent > MaxConcurrent
    THEN Some("Error: Max concurrent must be between 1 and 100.")
    ELSE IF c.tor /\ IsSome(c.proxy)
    THEN Some("Error: Cannot use both --tor and --proxy at the same time.")
    ELSE None

\* The checks main starts with: the message of the first that fails.
StartupError(c) ==
    IF c.timeout < MinTimeout \/ c.timeout > MaxTimeout
    THEN Some("Error: Timeout must be between 1 and 300 seconds.")
    ELSE IF c.max_concurrent < MinConcurrent \/ c.max_concurrent > MaxConcurrent
    THEN Some("Error: Max concurrent must be between 1 and 100.")
    ELSE IF c.tor /\ IsSome(c.proxy)
    THEN Some("Error: Cannot use both --tor and --proxy at the same time.")
    ELSE None

\* The HttpClient main gives the engine for the command line c: built with
\* the run's timeout, then with_tor or with_proxy.
BuiltClients(c) ==
    { IF c.tor THEN WithTor(hc)
      ELSE IF IsSome(c.proxy) THEN WithProxy(hc, Unwrap(c.proxy))
      ELSE hc : hc \in HttpClientsNew(c.timeout, c.rotate_ua) }

\* --------------------------------------------------------------- state
VARIABLES
    username,        \* the identifier searched
    sites,           \* the catalog: site name -> SiteInfo
    include_nsfw,    \* SearchEngine.include_nsfw
    max_concurrent,  \* SearchEngine.max_concurrent
    probe,           \* the network: site name -> scripted probe outcome
    dpc,             \* the dispatcher's position: "init", "loop", "join", "returned"
    sites_to_check,  \* the eligible sites, in iteration order
    permits,         \* permits available in the semaphore
    handles,         \* the JoinHandles pushed, by site name
    joined,          \* number of handles awaited so far
    task,            \* site name -> [pc, ret]: the spawned task's position and
                     \* the value check_site_internal returned
    http_log,        \* site name -> the requests issued on the HttpClient
    results,         \* the collection being built by the join loop
    delay_ms,        \* RateLimiter.delay_ms
    delays,          \* RateLimiter.delays: domain -> Option<Instant>
    clock,           \* the monotonic clock read by Instant::now()
    lock,            \* the holder of the write guard of the RateLimiterHandle
    caller,          \* caller -> its position in a wait_for call made through the handle
    last_call,       \* the wait_for call that returned last, if any
    main_pc,         \* main's position
    cli,             \* the parsed command line
    stderr,          \* the messages main wrote to standard error
    catalog_loaded,  \* load_sites_data has been called
    report,          \* the SearchReport main built, if any
    http_client,     \* the engine's HttpClient: base client, proxy, use_tor, rotate_ua
    clients          \* site name -> the clients built by the calls for its requests

\* The state of the engine and the state of the rate limiter.
engineVars == <<username, sites, include_nsfw, max_concurrent, probe, dpc,
                sites_to_check, permits, handles, joined, task, http_log, results>>
rateVars == <<delay_ms, delays, clock, lock, caller, last_call>>

mainVars == <<main_pc, cli, stderr, catalog_loaded, report>>
httpVars == <<http_client, clients>>

vars == <<engineVars, rateVars, mainVars, httpVars>>

\* ---------------------------------------------------------- RateLimiter state
RateDomains == {"a.com", "b.com"}
Callers == 1..NumCallers

\* A caller that is not inside a call.
IdleCaller == [pc |-> "idle", domain |-> "", start |-> 0, wake |-> 0]

\* RateLimiter::new.
RateLimiterNew(delay) ==
    /\ delay_ms = delay
    /\ delays = [d \in RateDomains |-> None]

\* create_rate_limiter has just returned the handle: nobody holds the lock and
\* no call has been made.
InitCallers ==
    /\ clock = 0
    /\ lock = None
    /\ caller = [c \in Callers |-> IdleCaller]
    /\ last_call = None

SiteNames == DOMAIN sites

NotSpawned == [pc |-> "none", ret |-> None]

\* A task that has been spawned and has neither completed nor panicked owns
\* its permit (moved into the task's future at spawn).
HoldsPermit(s) == task[s].pc \in {"spawned", "inflight", "body", "drop"}
Terminated(s) == task[s].pc \in {"finished", "panicked"}

\* search_username is about to be called.
InitSearch ==
    /\ dpc = "init"
    /\ sites_to_check = <<>>
    /\ permits = 0
    /\ handles = <<>>
    /\ joined = 0
    /\ task = [s \in SiteNames |-> NotSpawned]
    /\ http_log = [s \in SiteNames |-> <<>>]
    /\ results = <<>>

\* No call has been made on the engine's HttpClient.
NoCalls == clients = [s \in SiteNames |-> <<>>]

\* main has built the engine from the command line and calls search_username
\* for the username: the command line is the one that gives the engine its
\* fields, the catalog is loaded and nothing was reported.
MainSearching ==
    /\ main_pc = "search"
    /\ cli = [DefaultCli EXCEPT !.username = Some(username),
                                !.max_concurrent = max_concurrent,
                                !.nsfw = include_nsfw,
                                !.rate_limit = IF delay_ms > 0 THEN Some(delay_ms) ELSE None]
    /\ stderr = <<>>
    /\ catalog_loaded = TRUE
    /\ report = None
    /\ http_client \in BuiltClients(cli)
    /\ NoCalls

\* A run without rate limiting.
InitRun ==
    /\ InitSearch
    /\ RateLimiterNew(0)
    /\ InitCallers
    /\ MainSearching

\* A dispatcher run over NumSites catalog entries drawn from the fixtures F.
InitOver(F) ==
    /\ username \in Usernames
    /\ \E f \in [1..NumSites -> F] :
           /\ sites = [s \in 1..NumSites |-> f[s].info]
           /\ probe = [s \in 1..NumSites |-> f[s].outcome]
    /\ include_nsfw \in BOOLEAN
    /\ max_concurrent \in 1..MaxCeiling
    /\ InitRun

Init == InitOver(Fixtures)

\* The fixtures of the runs checked for liveness: the Message site (rejected,
\* or probed and its body read) and the adult-content site (excluded, or probed
\* and timing out). The steps of the plain StatusCode site are those of the
\* Message site without the body read.
LiveFixtures == {f \in Fixtures : f.info # PlainInfo("StatusCode")}

InitLive == InitOver(LiveFixtures)

\* ------------------------------------------------------------ helpers
\* The order in which the catalog (a HashMap) is iterated. The order of a
\* HashMap is arbitrary but fixed for the run; site names are labels, and Init
\* assigns every fixture to every name, so the sites are taken in name order:
\* any other order of a catalog is the name order of a relabelled catalog.
RECURSIVE InOrder(_)
InOrder(S) ==
    IF S = {} THEN <<>>
    ELSE LET m == CHOOSE x \in S : \A y \in S : x <= y
         IN  <<m>> \o InOrder(S \ {m})

\* Variant of Eligible: the filter lets every site through.
EligibleUnfiltered(s) == TRUE

\* The filter of search_username: adult-content sites are dropped unless the
\* engine includes them.
Eligible(s) == include_nsfw \/ ~(IF IsSome(sites[s].is_nsfw) THEN Unwrap(sites[s].is_nsfw) ELSE FALSE)

\* Variant of CanAcquire: a semaphore that never makes the dispatcher wait.
CanAcquireUngated == TRUE

\* Semaphore::acquire_owned resolves only when a permit is available.
CanAcquire == permits > 0

\* Variant of HandleReady: a join that does not wait for the task.
HandleReadyNoWait(s) == TRUE

\* JoinHandle: awaiting it resolves once the task has completed or panicked.
HandleReady(s) == Terminated(s)

\* What awaiting the handle of s yields: Err(JoinError) for a panicked task,
\* else Ok(the task's return value).
JoinOk(s) == task[s].pc # "panicked"

\* Variant of JoinedResults: a JoinError discards what was collected so far
\* (the join loop propagating the error instead of skipping it).
JoinedResultsAbortOnError(s) ==
    IF ~JoinOk(s) THEN <<>>
    ELSE IF IsSome(task[s].ret) THEN Append(results, Unwrap(task[s].ret))
    ELSE results

\* Variant of JoinedResults: the result is put at the front of the collection.
JoinedResultsInFront(s) ==
    IF JoinOk(s) /\ IsSome(task[s].ret)
    THEN <<Unwrap(task[s].ret)>> \o results
    ELSE results

\* Variant of JoinedResults: the result is pushed twice.
JoinedResultsTwice(s) ==
    IF JoinOk(s) /\ IsSome(task[s].ret)
    THEN Append(Append(results, Unwrap(task[s].ret)), Unwrap(task[s].ret))
    ELSE results

\* The join loop's body for the handle of s: `if let Ok(Some(result))` pushes
\* the result of a task that returned one and skips a JoinError.
JoinedResults(s) ==
    IF JoinOk(s) /\ IsSome(task[s].ret)
    THEN Append(results, Unwrap(task[s].ret))
    ELSE results

\* Variant of PermitsAfterPanic: the permit of a panicked task is lost.
PermitsLeakedOnPanic(s) == permits

\* Permits given back when the task's future is dropped by unwinding.
PermitsAfterPanic(s) == IF HoldsPermit(s) THEN permits + 1 ELSE permits

\* ------------------------------------------------- SearchEngine::search_username
\* The call starts: the eligible sites are collected and the semaphore is
\* created with max_concurrent permits.
SearchStart ==
    /\ main_pc = "search"
    /\ dpc = "init"
    /\ sites_to_check' = InOrder({s \in SiteNames : Eligible(s)})
    /\ permits' = max_concurrent
    /\ dpc' = "running"
    /\ UNCHANGED <<mainVars, httpVars, rateVars, username, sites, include_nsfw, max_concurrent, probe,
                   handles, joined, task, http_log, results>>

\* One iteration of the spawn loop: the dispatcher acquires a permit, moves it
\* into the task it spawns, and pushes the handle.
SpawnNext ==
    /\ dpc = "running"
    /\ Len(handles) < Len(sites_to_check)
    /\ CanAcquire
    /\ LET s == sites_to_check[Len(handles) + 1]
       IN  /\ permits' = permits - 1
           /\ task' = [task EXCEPT ![s] = [pc |-> "spawned", ret |-> None]]
           /\ handles' = Append(handles, s)
    /\ UNCHANGED <<mainVars, httpVars, rateVars, username, sites, include_nsfw, max_concurrent, probe, dpc,
                   sites_to_check, joined, http_log, results>>

\* Variant of TaskStart: a task is first polled only once the dispatcher has
\* left the spawn loop (a dispatcher that blocks its thread while it waits
\* for a permit).
TaskStartAfterSpawnLoop(s) ==
    /\ Len(handles) = Len(sites_to_check)
    /\ task[s].pc = "spawned"
    /\ IF ValidationRejects(sites[s], username)
       THEN /\ task' = [task EXCEPT ![s] =
                           [pc |-> "drop", ret |-> Some(IllegalResult(sites[s], username, s))]]
            /\ UNCHANGED <<http_log, http_client, clients>>
       ELSE /\ task' = [task EXCEPT ![s].pc = "inflight"]
            /\ http_log' = [http_log EXCEPT ![s] = Append(@, SelectRequest(sites[s], username))]
            /\ \E ua \in GetUserAgent(http_client) :
                   /\ clients' = [clients EXCEPT ![s] = Append(@, CallClient(http_client, ua))]
                   /\ http_client' = HttpClientAfterCall(http_client, ua)
    /\ UNCHANGED <<mainVars, rateVars, username, sites, include_nsfw, max_concurrent, probe, dpc,
                   sites_to_check, permits, handles, joined, results>>

\* The task runs check_site_internal up to its first suspension: validation,
\* URL resolution and the request issued on the HttpClient.
TaskStart(s) ==
    /\ task[s].pc = "spawned"
    /\ IF ValidationRejects(sites[s], username)
       THEN /\ task' = [task EXCEPT ![s] =
                           [pc |-> "drop", ret |-> Some(IllegalResult(sites[s], username, s))]]
            /\ UNCHANGED <<http_log, http_client, clients>>
       ELSE /\ task' = [task EXCEPT ![s].pc = "inflight"]
            /\ http_log' = [http_log EXCEPT ![s] = Append(@, SelectRequest(sites[s], username))]
            /\ \E ua \in GetUserAgent(http_client) :
                   /\ clients' = [clients EXCEPT ![s] = Append(@, CallClient(http_client, ua))]
                   /\ http_client' = HttpClientAfterCall(http_client, ua)
    /\ UNCHANGED <<mainVars, rateVars, username, sites, include_nsfw, max_concurrent, probe, dpc,
                   sites_to_check, permits, handles, joined, results>>

\* Variant of ProbeReturns: the responses of the requests in flight share
\* one slot.
ProbeReturnsSharedSlot(s) ==
    /\ task[s].pc = "inflight"
    /\ LET others == {t \in DOMAIN task : t # s /\ task[t].pc = "inflight"}
           o == IF others = {} THEN probe[s] ELSE probe[CHOOSE t \in others : TRUE]
       IN  IF o.kind = "Err"
           THEN task' = [task EXCEPT ![s] =
                            [pc |-> "drop", ret |-> Some(ErrResult(sites[s], username, s, o.err))]]
           ELSE IF sites[s].error_type = "Message"
           THEN task' = [task EXCEPT ![s].pc = "body"]
           ELSE task' = [task EXCEPT ![s] =
                            [pc |-> "drop",
                             ret |-> Some(OkResult(sites[s], username, s,
                                                   [status |-> o.status, url |-> o.url, text |-> None],
                                                   o.elapsed))]]
    /\ UNCHANGED <<mainVars, httpVars, rateVars, username, sites, include_nsfw, max_concurrent, probe, dpc,
                   sites_to_check, permits, handles, joined, http_log, results>>

\* Variant of ProbeReturns: a request that ended in a fault is sent once
\* more.
ProbeReturnsRetries(s) ==
    /\ task[s].pc = "inflight"
    /\ LET o == probe[s]
       IN  IF o.kind = "Err" /\ Len(http_log[s]) < 2
           THEN /\ http_log' = [http_log EXCEPT ![s] = Append(@, SelectRequest(sites[s], username))]
                /\ UNCHANGED task
           ELSE /\ UNCHANGED http_log
                /\ IF o.kind = "Err"
                   THEN task' = [task EXCEPT ![s] =
                                    [pc |-> "drop", ret |-> Some(ErrResult(sites[s], username, s, o.err))]]
                   ELSE IF sites[s].error_type = "Message"
                   THEN task' = [task EXCEPT ![s].pc = "body"]
                   ELSE task' = [task EXCEPT ![s] =
                                    [pc |-> "drop",
                                     ret |-> Some(OkResult(sites[s], username, s,
                                                           [status |-> o.status, url |-> o.url, text |-> None],
                                                           o.elapsed))]]
    /\ UNCHANGED <<mainVars, httpVars, rateVars, username, sites, include_nsfw, max_concurrent, probe, dpc,
                   sites_to_check, permits, handles, joined, results>>

\* The request resolves. An Err is turned into an Error result; an Ok response
\* is interpreted at once, except under the Message strategy, which first
\* awaits the body text.
ProbeReturns(s) ==
    /\ task[s].pc = "inflight"
    /\ LET o == probe[s]
       IN  IF o.kind = "Err"
           THEN task' = [task EXCEPT ![s] =
                            [pc |-> "drop", ret |-> Some(ErrResult(sites[s], username, s, o.err))]]
           ELSE IF sites[s].error_type = "Message"
           THEN task' = [task EXCEPT ![s].pc = "body"]
           ELSE task' = [task EXCEPT ![s] =
                            [pc |-> "drop",
                             ret |-> Some(OkResult(sites[s], username, s,
                                                   [status |-> o.status, url |-> o.url, text |-> None],
                                                   o.elapsed))]]
    /\ UNCHANGED <<mainVars, httpVars, rateVars, username, sites, include_nsfw, max_concurrent, probe, dpc,
                   sites_to_check, permits, handles, joined, http_log, results>>

\* response.text() resolves (Message strategy).
BodyRead(s) ==
    /\ task[s].pc = "body"
    /\ LET o == probe[s]
       IN  task' = [task EXCEPT ![s] =
                       [pc |-> "drop",
                        ret |-> Some(OkResult(sites[s], username, s,
                                              [status |-> o.status, url |-> o.url, text |-> o.text],
                                              o.elapsed))]]
    /\ UNCHANGED <<mainVars, httpVars, rateVars, username, sites, include_nsfw, max_concurrent, probe, dpc,
                   sites_to_check, permits, handles, joined, http_log, results>>

\* Variant of TaskFinish: the task completes without giving its permit back.
TaskFinishKeepsPermit(s) ==
    /\ task[s].pc = "drop"
    /\ task' = [task EXCEPT ![s].pc = "finished"]
    /\ UNCHANGED <<mainVars, httpVars, rateVars, username, sites, include_nsfw, max_concurrent, probe, dpc,
                   sites_to_check, permits, handles, joined, http_log, results>>

\* Variant of TaskFinish: the task marks its site in the catalog as it
\* completes.
TaskFinishFlagsSite(s) ==
    /\ task[s].pc = "drop"
    /\ permits' = permits + 1
    /\ task' = [task EXCEPT ![s].pc = "finished"]
    /\ sites' = [sites EXCEPT ![s].is_nsfw = Some(TRUE)]
    /\ UNCHANGED <<mainVars, httpVars, rateVars, username, include_nsfw, max_concurrent, probe, dpc,
                   sites_to_check, handles, joined, http_log, results>>

\* drop(permit), and the task completes with the result.
TaskFinish(s) ==
    /\ task[s].pc = "drop"
    /\ permits' = permits + 1
    /\ task' = [task EXCEPT ![s].pc = "finished"]
    /\ UNCHANGED <<mainVars, httpVars, rateVars, username, sites, include_nsfw, max_concurrent, probe, dpc,
                   sites_to_check, handles, joined, http_log, results>>

\* The task panics: the runtime catches the panic, drops the task's future
\* (and the permit it owns) and completes the handle with a JoinError.
TaskPanic(s) ==
    /\ task[s].pc \in {"spawned", "inflight", "body", "drop"}
    /\ permits' = PermitsAfterPanic(s)
    /\ task' = [task EXCEPT ![s] = [pc |-> "panicked", ret |-> None]]
    /\ UNCHANGED <<mainVars, httpVars, rateVars, username, sites, include_nsfw, max_concurrent, probe, dpc,
                   sites_to_check, handles, joined, http_log, results>>

\* One iteration of the join loop: the next handle, in spawn order, is awaited
\* and its result, if any, pushed.
JoinNext ==
    /\ dpc = "running"
    /\ Len(handles) = Len(sites_to_check)
    /\ joined < Len(handles)
    /\ LET s == handles[joined + 1]
       IN  /\ HandleReady(s)
           /\ results' = JoinedResults(s)
    /\ joined' = joined + 1
    /\ UNCHANGED <<mainVars, httpVars, rateVars, username, sites, include_nsfw, max_concurrent, probe, dpc,
                   sites_to_check, permits, handles, task, http_log>>

\* search_username returns the collection.
SearchReturn ==
    /\ dpc = "running"
    /\ Len(handles) = Len(sites_to_check)
    /\ joined = Len(handles)
    /\ dpc' = "returned"
    /\ UNCHANGED <<mainVars, httpVars, rateVars, username, sites, include_nsfw, max_concurrent, probe,
                   sites_to_check, permits, handles, joined, task, http_log, results>>

\* The steps the runtime schedules: everything but a panic.
Scheduled ==
    \/ SearchStart
    \/ SpawnNext
    \/ \E s \in SiteNames : TaskStart(s)
    \/ \E s \in SiteNames : ProbeReturns(s)
    \/ \E s \in SiteNames : BodyRead(s)
    \/ \E s \in SiteNames : TaskFinish(s)
    \/ JoinNext
    \/ SearchReturn

Next ==
    \/ SearchStart
    \/ SpawnNext
    \/ \E s \in SiteNames : TaskStart(s)
    \/ \E s \in SiteNames : ProbeReturns(s)
    \/ \E s \in SiteNames : BodyRead(s)
    \/ \E s \in SiteNames : TaskFinish(s)
    \/ \E s \in SiteNames : TaskPanic(s)
    \/ JoinNext
    \/ SearchReturn

Spec == Init /\ [][Next]_vars

LiveSpec == InitLive /\ [][Next]_vars /\ WF_vars(Scheduled)

\* --------------------------------------------- a run with rate limiting on
\* main enables rate limiting for the run (--rate-limit with a value above 0,
\* `engine.with_rate_limit(rate_limit)`): a limiter with that delay exists
\* when search_username is called. SearchEngine has no field for it and
\* neither search_username nor check_site_internal refers to one.
InitLimited ==
    /\ username \in Usernames
    /\ \E f \in [1..NumSites -> Fixtures] :
           /\ sites = [s \in 1..NumSites |-> f[s].info]
           /\ probe = [s \in 1..NumSites |-> f[s].outcome]
    /\ include_nsfw \in BOOLEAN
    /\ max_concurrent \in 1..MaxCeiling
    /\ InitSearch
    /\ \E delay \in 1..MaxDelay : RateLimiterNew(delay)
    /\ InitCallers
    /\ MainSearching

SpecLimited == InitLimited /\ [][Next]_vars

\* ------------------------------------------- the engine, whatever its ceiling
\* SearchEngine::new: Ok with the fields as given (HttpClient::new with a
\* default configuration does not fail); no argument is checked.
SearchEngineNew(timeout, ceiling, nsfw) ==
    [kind |-> "Ok", timeout |-> timeout, max_concurrent |-> ceiling, include_nsfw |-> nsfw]

\* search_username is about to be called on an engine some caller built
\* with SearchEngine::new, the ceiling being any usize from 0 on.
InitEngine ==
    /\ username \in Usernames
    /\ \E f \in [1..NumSites -> LiveFixtures] :
           /\ sites = [s \in 1..NumSites |-> f[s].info]
           /\ probe = [s \in 1..NumSites |-> f[s].outcome]
    /\ \E ceiling \in 0..MaxCeiling, nsfw \in BOOLEAN :
           LET engine == SearchEngineNew(DefaultTimeout, ceiling, nsfw)
           IN  /\ engine.kind = "Ok"
               /\ max_concurrent = engine.max_concurrent
               /\ include_nsfw = engine.include_nsfw
               /\ http_client \in HttpClientsNew(engine.timeout, FALSE)
    /\ InitSearch
    /\ RateLimiterNew(0)
    /\ InitCallers
    /\ main_pc = "search"
    /\ cli = [DefaultCli EXCEPT !.username = Some(username), !.nsfw = include_nsfw]
    /\ stderr = <<>>
    /\ catalog_loaded = TRUE
    /\ report = None
    /\ NoCalls

SpecEngine == InitEngine /\ [][Next]_vars

\* ------------------------------------------ one site, every descriptor
StatusCodes == {OK, NOT_FOUND, FORBIDDEN, 500}
Bodies == StringsUpTo({"n", "f"}, MaxBodyLen)

ErrorMsgs ==
    { None, Some(Single(<<"n">>)), Some(Single(<<>>)), Some(Multiple(<<>>)),
      Some(Multiple(<< <<"f", "f">>, <<"n">> >>)) }
ErrorUrls == { None, Some(HostUrl), Some(HostUrl \o <<"/">>) }
RequestMethods == { None, Some("GET"), Some("HEAD"), Some("POST"), Some("PUT") }
RequestPayloads == { None, Some(JString(<<"k">>)) }
UrlProbes == { None, Some(ProbeTemplate) }

\* Descriptors that vary the detection rule, with no pattern or one that does
\* not parse.
InterpInfos ==
    { [PlainInfo(et) EXCEPT !.error_msg = em, !.error_url = eu, !.regex_check = rc] :
        et \in ErrorTypes, em \in ErrorMsgs, eu \in ErrorUrls, rc \in {None, Some("[")} }

\* Descriptors that vary the validation pattern.
ValidationInfos ==
    { [PlainInfo(et) EXCEPT !.error_msg = em, !.regex_check = Some(rc)] :
        et \in ErrorTypes, em \in {None, Some(Single(<<"n">>))}, rc \in RegexPatterns }

\* Descriptors that vary the request.
MethodInfos ==
    { [PlainInfo(et) EXCEPT !.request_method = rm, !.request_payload = rp, !.url_probe = up] :
        et \in ErrorTypes, rm \in RequestMethods, rp \in RequestPayloads, up \in UrlProbes }

PolicyInfos == InterpInfos \cup ValidationInfos \cup MethodInfos

AllOutcomes ==
    { OkOutcome(st, Url(HostUrl, path), text, 5) :
        st \in StatusCodes, path \in {<<>>, <<"/", "x">>},
        text \in {None} \cup {Some(b) : b \in Bodies} }
    \cup { ErrOutcome(e, 9) : e \in Faults }

\* A run over a catalog of one site, for every descriptor, identifier and
\* probe outcome of the model.
InitPolicy ==
    /\ username \in Usernames
    /\ \E info \in PolicyInfos : sites = [s \in {1} |-> info]
    /\ \E o \in AllOutcomes : probe = [s \in {1} |-> o]
    /\ include_nsfw = FALSE
    /\ max_concurrent = 1
    /\ InitRun

SpecPolicy == InitPolicy /\ [][Next]_vars

\* ------------------------------------- one site, identifiers with a placeholder
\* Identifiers, among them one that holds the placeholder text.
SubstUsernames == Usernames \cup {<<"a", "{", "}">>}

\* Descriptors with and without a probe template of their own.
SubstInfos ==
    { [PlainInfo(et) EXCEPT !.url_probe = up] : et \in ErrorTypes, up \in UrlProbes }

\* A run over a catalog of one site for these identifiers and descriptors.
InitSubst ==
    /\ username \in SubstUsernames
    /\ \E info \in SubstInfos : sites = [s \in {1} |-> info]
    /\ \E f \in Fixtures : probe = [s \in {1} |-> f.outcome]
    /\ include_nsfw = FALSE
    /\ max_concurrent = 1
    /\ InitRun

SpecSubst == InitSubst /\ [][Next]_vars

\* ------------------------------------------------------ run_email_search
EmailService(url, url_main, error_type, error_msg) ==
    [url |-> url, url_main |-> url_main, error_type |-> error_type,
     error_msg |-> error_msg, request_method |-> None]

\* get_email_services.
EmailServices ==
    [n \in {"DuckDuckGo", "Gravatar", "HaveIBeenPwned"} |->
        CASE n = "Gravatar" ->
                 EmailService(<<"g", "/", "{", "}">>, <<"g">>, "Message", Some(<<"n">>))
          [] n = "DuckDuckGo" ->
                 EmailService(<<"d", "/", "{", "}">>, <<"d">>, "StatusCode", None)
          [] n = "HaveIBeenPwned" ->
                 EmailService(<<"h", "/", "{", "}">>, <<"h">>, "StatusCode", None)]

Emails == {<<"a", "@", "b">>, <<"a">>}

EmailOutcomes ==
    { OkOutcome(OK, Url(HostUrl, <<>>), Some(<<"n">>), 5),
      OkOutcome(NOT_FOUND, Url(HostUrl, <<>>), Some(<<"f">>), 5),
      ErrOutcome("timeout", 9) }

\* The services in the order the HashMap yields them: any order.
ServiceOrders ==
    {q \in [1..3 -> DOMAIN EmailServices] : \A i, j \in 1..3 : q[i] = q[j] => i = j}

\* main calls run_email_search for the email of the command line; the
\* catalog is not loaded on this path.
MainInEmail ==
    /\ main_pc = "email"
    /\ cli = [DefaultCli EXCEPT !.email = Some(username), !.max_concurrent = max_concurrent]
    /\ stderr = <<>>
    /\ catalog_loaded = FALSE
    /\ report = None
    /\ http_client \in BuiltClients(cli)
    /\ NoCalls

InitEmail ==
    /\ username \in Emails
    /\ sites = EmailServices
    /\ probe \in [DOMAIN EmailServices -> EmailOutcomes]
    /\ include_nsfw = FALSE
    /\ max_concurrent \in 1..MaxCeiling
    /\ InitSearch
    /\ RateLimiterNew(0)
    /\ InitCallers
    /\ MainInEmail

EmailUrl(svc, email) == Replace(svc.url, Placeholder, email)

EmailClaimed(svc, status, text) ==
    IF svc.error_type = "StatusCode" THEN status = OK
    ELSE IF IsSome(text)
         THEN IF IsSome(svc.error_msg)
              THEN ~Contains(Unwrap(text), Unwrap(svc.error_msg))
              ELSE status = OK
         ELSE status = OK

EmailOkResult(svc, email, service_name, o, text) ==
    LET url == EmailUrl(svc, email)
        query_result ==
            IF EmailClaimed(svc, o.status, text)
            THEN QueryResultClaimed(email, service_name, svc.url_main, url)
            ELSE QueryResultAvailable(email, service_name, svc.url_main, url)
    IN  [query_result EXCEPT !.http_status = Some(o.status),
                             !.response_time_ms = Some(o.elapsed)]

EmailErrResult(svc, email, service_name, e) ==
    QueryResultError(email, service_name, svc.url_main, EmailUrl(svc, email), ErrToString(e))

\* The call starts: the services are listed and the semaphore is created.
EmailStart ==
    /\ main_pc = "email"
    /\ dpc = "init"
    /\ sites_to_check' \in ServiceOrders
    /\ permits' = max_concurrent
    /\ dpc' = "running"
    /\ UNCHANGED <<mainVars, httpVars, rateVars, username, sites, include_nsfw, max_concurrent, probe,
                   handles, joined, task, http_log, results>>

\* The loop body up to the spawn: a permit is acquired into the local
\* variable permit.
EmailAcquire ==
    /\ dpc = "running"
    /\ Len(handles) < Len(sites_to_check)
    /\ CanAcquire
    /\ permits' = permits - 1
    /\ dpc' = "holding"
    /\ UNCHANGED <<mainVars, httpVars, rateVars, username, sites, include_nsfw, max_concurrent, probe,
                   sites_to_check, handles, joined, task, http_log, results>>

\* The rest of the loop body: the task is spawned and its handle pushed. The
\* async block does not mention permit, so the permit is not moved into the
\* task: it is dropped where the loop body ends.
EmailSpawn ==
    /\ dpc = "holding"
    /\ LET s == sites_to_check[Len(handles) + 1]
       IN  /\ task' = [task EXCEPT ![s] = [pc |-> "spawned", ret |-> None]]
           /\ handles' = Append(handles, s)
    /\ permits' = permits + 1
    /\ dpc' = "running"
    /\ UNCHANGED <<mainVars, httpVars, rateVars, username, sites, include_nsfw, max_concurrent, probe,
                   sites_to_check, joined, http_log, results>>

\* The task resolves the URL and issues its GET.
EmailTaskStart(s) ==
    /\ task[s].pc = "spawned"
    /\ task' = [task EXCEPT ![s].pc = "inflight"]
    /\ http_log' = [http_log EXCEPT ![s] =
                       Append(@, [method |-> "GET", url |-> EmailUrl(sites[s], username),
                                  body |-> None])]
    /\ \E ua \in GetUserAgent(http_client) :
           /\ clients' = [clients EXCEPT ![s] = Append(@, CallClient(http_client, ua))]
           /\ http_client' = HttpClientAfterCall(http_client, ua)
    /\ UNCHANGED <<mainVars, rateVars, username, sites, include_nsfw, max_concurrent, probe, dpc,
                   sites_to_check, permits, handles, joined, results>>

\* The GET resolves; the task completes with its result unless it has the
\* body to read first.
EmailProbeReturns(s) ==
    /\ task[s].pc = "inflight"
    /\ LET o == probe[s]
       IN  IF o.kind = "Err"
           THEN task' = [task EXCEPT ![s] =
                            [pc |-> "finished",
                             ret |-> Some(EmailErrResult(sites[s], username, s, o.err))]]
           ELSE IF sites[s].error_type = "Message"
           THEN task' = [task EXCEPT ![s].pc = "body"]
           ELSE task' = [task EXCEPT ![s] =
                            [pc |-> "finished",
                             ret |-> Some(EmailOkResult(sites[s], username, s, o, None))]]
    /\ UNCHANGED <<mainVars, httpVars, rateVars, username, sites, include_nsfw, max_concurrent, probe, dpc,
                   sites_to_check, permits, handles, joined, http_log, results>>

EmailBodyRead(s) ==
    /\ task[s].pc = "body"
    /\ task' = [task EXCEPT ![s] =
                   [pc |-> "finished",
                    ret |-> Some(EmailOkResult(sites[s], username, s, probe[s], probe[s].text))]]
    /\ UNCHANGED <<mainVars, httpVars, rateVars, username, sites, include_nsfw, max_concurrent, probe, dpc,
                   sites_to_check, permits, handles, joined, http_log, results>>

EmailJoinNext ==
    /\ dpc = "running"
    /\ Len(handles) = Len(sites_to_check)
    /\ joined < Len(handles)
    /\ LET s == handles[joined + 1]
       IN  /\ Terminated(s)
           /\ results' = IF task[s].pc = "finished" /\ IsSome(task[s].ret)
                         THEN Append(results, Unwrap(task[s].ret))
                         ELSE results
    /\ joined' = joined + 1
    /\ UNCHANGED <<mainVars, httpVars, rateVars, username, sites, include_nsfw, max_concurrent, probe, dpc,
                   sites_to_check, permits, handles, task, http_log>>

EmailReturn ==
    /\ dpc = "running"
    /\ Len(handles) = Len(sites_to_check)
    /\ joined = Len(handles)
    /\ dpc' = "returned"
    /\ UNCHANGED <<mainVars, httpVars, rateVars, username, sites, include_nsfw, max_concurrent, probe,
                   sites_to_check, permits, handles, joined, task, http_log, results>>

NextEmail ==
    \/ EmailStart
    \/ EmailAcquire
    \/ EmailSpawn
    \/ \E s \in SiteNames : EmailTaskStart(s)
    \/ \E s \in SiteNames : EmailProbeReturns(s)
    \/ \E s \in SiteNames : EmailBodyRead(s)
    \/ EmailJoinNext
    \/ EmailReturn

SpecEmail == InitEmail /\ [][NextEmail]_vars

\* ------------------------------------------------------------- RateLimiter
\* Instant::duration_since: saturating at zero.
DurationSince(now, earlier) == IF now >= earlier THEN now - earlier ELSE 0

\* Variant of SleepTime: no suspension.
SleepTimeZero(elapsed) == 0

\* sleep_time = delay - elapsed.
SleepTime(elapsed) == delay_ms - elapsed

\* Variant of Inserted: the timestamp of a domain is kept once it is set.
InsertedIfAbsent(domain, instant) ==
    IF IsSome(delays[domain]) THEN delays ELSE [delays EXCEPT ![domain] = Some(instant)]

\* self.delays.insert(domain, instant).
Inserted(domain, instant) == [delays EXCEPT ![domain] = Some(instant)]

\* The record of the call of c as it returns now: its domain, when it entered
\* wait_for, the timestamp the domain had then, when it returned, and whether
\* it slept.
Returned(c, start, slept) ==
    Some([domain |-> caller[c].domain, start |-> start, last_request |-> delays[caller[c].domain],
          returned |-> clock, slept |-> slept])

\* Variant of Disabled: wait_for without its early return.
DisabledNever == FALSE

\* `if self.delay_ms == 0 { return; }`.
Disabled == delay_ms = 0

\* No search is under way while the rate limiter is exercised.
NoSearch ==
    /\ username = <<>>
    /\ sites = <<>>
    /\ probe = <<>>
    /\ include_nsfw = FALSE
    /\ max_concurrent = 1
    /\ dpc = "init"
    /\ sites_to_check = <<>>
    /\ permits = 0
    /\ handles = <<>>
    /\ joined = 0
    /\ task = <<>>
    /\ http_log = <<>>
    /\ results = <<>>
    /\ main_pc = "start"
    /\ cli = DefaultCli
    /\ stderr = <<>>
    /\ catalog_loaded = FALSE
    /\ report = None
    /\ http_client \in HttpClientsNew(DefaultTimeout, FALSE)
    /\ NoCalls

\* A rate limiter created with some delay and shared by the callers.
InitRate ==
    /\ NoSearch
    /\ \E delay \in 0..MaxDelay : RateLimiterNew(delay)
    /\ InitCallers

\* Time passes.
Tick ==
    /\ clock < MaxClock
    /\ clock' = clock + 1
    /\ UNCHANGED <<mainVars, httpVars, engineVars, delay_ms, delays, lock, caller, last_call>>

\* A caller starts `handle.write().await.wait_for(domain).await`: it asks for
\* the write lock. wait_for takes &mut self, so the write guard is the only
\* way to call it through the handle, and the guard lives until the future
\* of wait_for has completed.
WaitForCall(c, domain) ==
    /\ caller[c].pc = "idle"
    /\ caller' = [caller EXCEPT ![c] = [@ EXCEPT !.pc = "write", !.domain = domain]]
    /\ UNCHANGED <<mainVars, httpVars, engineVars, delay_ms, delays, clock, lock, last_call>>

\* The write lock is granted and wait_for runs to its first suspension: it
\* returns at once when limiting is off or the domain's last request is old
\* enough or unknown (recording the time, and the guard is dropped), and
\* otherwise goes to sleep for the remainder, the guard held.
WaitForEnter(c) ==
    /\ caller[c].pc = "write"
    /\ lock = None
    /\ LET domain == caller[c].domain
           now == clock
       IN  IF Disabled
           THEN /\ last_call' = Returned(c, now, FALSE)
                /\ caller' = [caller EXCEPT ![c] = IdleCaller]
                /\ UNCHANGED <<delays, lock>>
           ELSE IF IsSome(delays[domain])
                   /\ DurationSince(now, Unwrap(delays[domain])) < delay_ms
           THEN /\ caller' = [caller EXCEPT ![c] =
                       [@ EXCEPT !.pc = "sleep", !.start = now,
                                 !.wake = now + SleepTime(DurationSince(now, Unwrap(delays[domain])))]]
                /\ lock' = Some(c)
                /\ UNCHANGED <<delays, last_call>>
           ELSE /\ delays' = Inserted(domain, clock)
                /\ last_call' = Returned(c, now, FALSE)
                /\ caller' = [caller EXCEPT ![c] = IdleCaller]
                /\ UNCHANGED lock
    /\ UNCHANGED <<mainVars, httpVars, engineVars, delay_ms, clock>>

\* The sleep is over (tokio::time::sleep completes no earlier than its
\* deadline): the time is recorded, wait_for returns and the guard is dropped.
WaitForWake(c) ==
    /\ caller[c].pc = "sleep"
    /\ clock >= caller[c].wake
    /\ delays' = Inserted(caller[c].domain, clock)
    /\ last_call' = Returned(c, caller[c].start, TRUE)
    /\ caller' = [caller EXCEPT ![c] = IdleCaller]
    /\ lock' = None
    /\ UNCHANGED <<mainVars, httpVars, engineVars, delay_ms, clock>>

NextRate ==
    \/ Tick
    \/ \E c \in Callers, domain \in RateDomains : WaitForCall(c, domain)
    \/ \E c \in Callers : WaitForEnter(c)
    \/ \E c \in Callers : WaitForWake(c)

SpecRate == InitRate /\ [][NextRate]_vars

\* ------------------------------------------------------------------- main
\* The catalog load_sites_data yields: the fixtures, one after the other.
FixtureSeq ==
    << Fixture(PlainInfo("StatusCode"),
               OkOutcome(OK, Url(HostUrl, <<>>), Some(<<"n">>), 5)),
       Fixture([PlainInfo("Message") EXCEPT !.error_msg = Some(Single(<<"n">>)),
                                            !.regex_check = Some("^[a-z]+$"),
                                            !.is_nsfw = Some(FALSE)],
               OkOutcome(NOT_FOUND, Url(HostUrl, <<>>), Some(<<"n">>), 7)),
       Fixture([PlainInfo("StatusCode") EXCEPT !.is_nsfw = Some(TRUE)],
               ErrOutcome("timeout", 9)) >>

FixtureAt(s) == FixtureSeq[((s - 1) % Len(FixtureSeq)) + 1]

\* The command lines of the runs: timeouts and ceilings in and out of range,
\* with and without Tor, a proxy, --list-sites, an email and a username (the
\* empty one among them), with and without --rotate-ua; no --file, --site,
\* --variations or --rate-limit.
Ceilings == {0, 1, MaxCeiling, MaxConcurrent, MaxConcurrent + 1}
Timeouts == {0, DefaultTimeout, MaxTimeout + 1}
CommandLines ==
    { [DefaultCli EXCEPT !.username = u, !.email = e, !.timeout = t,
                         !.max_concurrent = n, !.nsfw = nsfw, !.tor = tor,
                         !.proxy = px, !.list_sites = ls, !.rotate_ua = rot] :
      u \in {None} \cup {Some(x) : x \in Usernames \cup {<<>>}},
      e \in {None, Some(<<"a", "@", "b">>)},
      t \in Timeouts, n \in Ceilings, nsfw \in BOOLEAN, tor \in BOOLEAN,
      px \in {None} \cup {Some(x) : x \in ProxyUrls}, ls \in BOOLEAN,
      rot \in BOOLEAN }

\* The HttpClient of an engine that is not built yet.
NoHttpClient ==
    [client |-> [timeout |-> 0, user_agent |-> ""], proxy |-> None,
     use_tor |-> FALSE, rotate_ua |-> FALSE]

\* main has parsed the command line and done nothing else: no engine exists
\* and the catalog is where load_sites_data will find it.
InitMain ==
    /\ cli \in CommandLines
    /\ main_pc = "start"
    /\ stderr = <<>>
    /\ catalog_loaded = FALSE
    /\ report = None
    /\ sites = [s \in 1..NumSites |-> FixtureAt(s).info]
    /\ probe = [s \in 1..NumSites |-> FixtureAt(s).outcome]
    /\ username = <<>>
    /\ include_nsfw = FALSE
    /\ max_concurrent = 0
    /\ http_client = NoHttpClient
    /\ NoCalls
    /\ InitSearch
    /\ RateLimiterNew(0)
    /\ InitCallers

\* The checks of the timeout, the ceiling and --tor with --proxy: the first
\* that fails writes its message and main returns.
MainCheckArgs ==
    /\ main_pc = "start"
    /\ IF IsSome(StartupError(cli))
       THEN /\ stderr' = Append(stderr, Unwrap(StartupError(cli)))
            /\ main_pc' = "exited"
       ELSE /\ main_pc' = "checked"
            /\ UNCHANGED stderr
    /\ UNCHANGED <<cli, catalog_loaded, report, httpVars, rateVars, engineVars>>

\* --list-sites: the catalog is loaded and listed, and main returns (with the
\* error of load_sites_data if it fails).
MainListSites ==
    /\ main_pc = "checked"
    /\ cli.list_sites
    /\ catalog_loaded' = TRUE
    /\ \E ok \in BOOLEAN : main_pc' = IF ok THEN "exited" ELSE "failed"
    /\ UNCHANGED <<cli, stderr, report, httpVars, rateVars, engineVars>>

\* An email is given: main calls run_email_search with the email, the
\* ceiling and the client options of the command line; nothing about the
\* email is checked on the way.
MainEmail ==
    /\ main_pc = "checked"
    /\ ~cli.list_sites
    /\ IsSome(cli.email)
    /\ main_pc' = "email"
    /\ username' = Unwrap(cli.email)
    /\ max_concurrent' = cli.max_concurrent
    /\ http_client' \in BuiltClients(cli)
    /\ UNCHANGED <<cli, stderr, catalog_loaded, report, clients, rateVars, sites, include_nsfw, probe,
                   dpc, sites_to_check, permits, handles, joined, task, http_log, results>>

\* Neither an email nor a username: the usage is printed and main returns.
MainUsage ==
    /\ main_pc = "checked"
    /\ ~cli.list_sites
    /\ cli.email = None
    /\ cli.username = None
    /\ main_pc' = "exited"
    /\ UNCHANGED <<cli, stderr, catalog_loaded, report, httpVars, rateVars, engineVars>>

\* A username and no email: the checks of the identifiers, of which only the
\* length of the username can fail here.
MainIdentifiers ==
    /\ main_pc = "checked"
    /\ ~cli.list_sites
    /\ cli.email = None
    /\ IsSome(cli.username)
    /\ LET u == Unwrap(cli.username)
       IN  IF Len(u) = 0 \/ Len(u) > MaxUsernameLen
           THEN /\ stderr' = Append(stderr, "Error: Username must be between 1 and 50 characters")
                /\ main_pc' = "exited"
           ELSE /\ main_pc' = "load"
                /\ UNCHANGED stderr
    /\ UNCHANGED <<cli, catalog_loaded, report, httpVars, rateVars, engineVars>>

\* load_sites_data: main goes on with the catalog or returns the error.
MainLoadSites ==
    /\ main_pc = "load"
    /\ catalog_loaded' = TRUE
    /\ \E ok \in BOOLEAN : main_pc' = IF ok THEN "loaded" ELSE "failed"
    /\ UNCHANGED <<cli, stderr, report, httpVars, rateVars, engineVars>>

\* The engine is built from the command line (timeout, ceiling, nsfw, then
\* rate limit, Tor or proxy) and search_username is called for the username.
MainNewEngine ==
    /\ main_pc = "loaded"
    /\ max_concurrent' = cli.max_concurrent
    /\ include_nsfw' = cli.nsfw
    /\ http_client' \in BuiltClients(cli)
    /\ delay_ms' = IF IsSome(cli.rate_limit) /\ Unwrap(cli.rate_limit) > 0
                   THEN Unwrap(cli.rate_limit) ELSE delay_ms
    /\ username' = Unwrap(cli.username)
    /\ main_pc' = "search"
    /\ UNCHANGED <<cli, stderr, catalog_loaded, report, clients, delays, clock, lock,
                   caller, last_call, sites, probe, dpc, sites_to_check, permits,
                   handles, joined, task, http_log, results>>

\* search_username has returned: the report is built from its results.
MainReport ==
    /\ main_pc = "search"
    /\ dpc = "returned"
    /\ report' = Some(SearchReportNew(username, results, http_client.use_tor))
    /\ main_pc' = "done"
    /\ UNCHANGED <<cli, stderr, catalog_loaded, httpVars, rateVars, engineVars>>

NextMain ==
    \/ MainCheckArgs
    \/ MainListSites
    \/ MainEmail
    \/ MainUsage
    \/ MainIdentifiers
    \/ MainLoadSites
    \/ MainNewEngine
    \/ Next
    \/ MainReport

SpecMain == InitMain /\ [][NextMain]_vars

\* --------------------------------------------- SearchReport::new, any results
\* Result collections of up to NumSites results of any status.
ResultCollections ==
    UNION { { [i \in 1..n |-> QueryResultNew(<<"a">>, i, MainUrl, <<>>, st[i])] :
              st \in [1..n -> Statuses] } : n \in 0..NumSites }

\* main is about to build the report of a search that returned some
\* collection, with or without Tor.
InitReport ==
    /\ results \in ResultCollections
    /\ username = <<"a">>
    /\ sites = [s \in 1..NumSites |-> PlainInfo("StatusCode")]
    /\ probe = [s \in 1..NumSites |-> ErrOutcome("timeout", 9)]
    /\ include_nsfw = FALSE
    /\ max_concurrent = 1
    /\ dpc = "returned"
    /\ sites_to_check = <<>>
    /\ permits = 0
    /\ handles = <<>>
    /\ joined = 0
    /\ task = [s \in SiteNames |-> NotSpawned]
    /\ http_log = [s \in SiteNames |-> <<>>]
    /\ RateLimiterNew(0)
    /\ InitCallers
    /\ main_pc = "search"
    /\ \E tor \in BOOLEAN : cli = [DefaultCli EXCEPT !.username = Some(username), !.tor = tor]
    /\ stderr = <<>>
    /\ catalog_loaded = TRUE
    /\ report = None
    /\ http_client \in BuiltClients(cli)
    /\ NoCalls

SpecReport == InitReport /\ [][MainReport]_vars

\* ------------------------------------------ main with an email to search for
\* Command lines with --email.
EmailCommandLines ==
    { [DefaultCli EXCEPT !.email = Some(e), !.max_concurrent = n] : e \in Emails, n \in 1..MaxCeiling }

\* main has parsed a command line with an email; the email services and the
\* outcomes their probes would have are what run_email_search will find.
InitMainEmail ==
    /\ cli \in EmailCommandLines
    /\ main_pc = "start"
    /\ stderr = <<>>
    /\ catalog_loaded = FALSE
    /\ report = None
    /\ sites = EmailServices
    /\ probe \in [DOMAIN EmailServices -> EmailOutcomes]
    /\ username = <<>>
    /\ include_nsfw = FALSE
    /\ max_concurrent = 0
    /\ http_client = NoHttpClient
    /\ NoCalls
    /\ InitSearch
    /\ RateLimiterNew(0)
    /\ InitCallers

NextMainEmail ==
    \/ MainCheckArgs
    \/ MainEmail
    \/ NextEmail

SpecMainEmail == InitMainEmail /\ [][NextMainEmail]_vars

\* ------------------------------------- a search under any valid command line
\* Timeouts main accepts: the ends of the range and the default.
ValidTimeouts == {MinTimeout, DefaultTimeout, MaxTimeout}

\* main has passed its checks, built the engine from the command line (the
\* timeout, --tor or --proxy, --rotate-ua) and calls search_username.
InitClient ==
    /\ username \in Usernames
    /\ \E f \in [1..NumSites -> LiveFixtures] :
           /\ sites = [s \in 1..NumSites |-> f[s].info]
           /\ probe = [s \in 1..NumSites |-> f[s].outcome]
    /\ include_nsfw = DefaultCli.nsfw
    /\ max_concurrent \in 1..MaxCeiling
    /\ InitSearch
    /\ RateLimiterNew(0)
    /\ InitCallers
    /\ main_pc = "search"
    /\ \E t \in ValidTimeouts, tor \in BOOLEAN, px \in {None} \cup {Some(x) : x \in ProxyUrls}, rot \in BOOLEAN :
           cli = [DefaultCli EXCEPT !.username = Some(username), !.max_concurrent = max_concurrent,
                                    !.nsfw = include_nsfw, !.timeout = t, !.tor = tor,
                                    !.proxy = px, !.rotate_ua = rot]
    /\ StartupError(cli) = None
    /\ stderr = <<>>
    /\ catalog_loaded = TRUE
    /\ report = None
    /\ http_client \in BuiltClients(cli)
    /\ NoCalls

SpecClient == InitClient /\ [][Next]_vars

\* ================================================================ claims
\* Positions of the results of site s in the collection.
ResultsFor(s) == {i \in 1..Len(results) : results[i].site_name = s}

\* The task of s has returned from check_site_internal (it may still hold its
\* permit).
HasReturned(s) == task[s].pc \in {"drop", "finished"}

\* The task of s has issued its request.
Probed(s) == Len(http_log[s]) > 0

\* The site probes in flight: the request was issued and the permit is not
\* yet released.
InFlight == {s \in SiteNames : Probed(s) /\ HoldsPermit(s)}

\* C1: in search_username the number of site probes in flight never exceeds
\* the ceiling max_concurrent.
C1_InFlightWithinCeiling == Cardinality(InFlight) <= max_concurrent

\* C1 witness: the ceiling is reached while a further site waits for a permit.
C1_Witness ==
    /\ Cardinality(InFlight) = max_concurrent
    /\ max_concurrent >= 2
    /\ dpc = "running"
    /\ Len(handles) < Len(sites_to_check)

\* The email probes in flight: the GET was issued and has not resolved, or its
\* body is being read.
EmailInFlight == {s \in SiteNames : task[s].pc \in {"inflight", "body"}}

\* C2: in run_email_search the number of email-service probes in flight never
\* exceeds max_concurrent.
C2_EmailInFlightWithinCeiling == Cardinality(EmailInFlight) <= max_concurrent

\* C3: when search_username returns no spawned task is still running, and no
\* result is in the collection before its task has completed.
C3_StructuredJoin ==
    /\ dpc = "returned" =>
          /\ Len(handles) = Len(sites_to_check)
          /\ \A i \in 1..Len(handles) : Terminated(handles[i])
          /\ \A s \in SiteNames : task[s].pc \in {"none", "finished", "panicked"}
    /\ \A i \in 1..Len(results) : task[results[i].site_name].pc = "finished"

\* C3 witness: the call has returned the results of at least two tasks.
C3_Witness ==
    /\ dpc = "returned"
    /\ Len(results) >= 2
    /\ Len(results) = Len(handles)

\* C4: when search_username returns, a task that panicked has contributed no
\* result and every other eligible site's task has completed with its result
\* in the collection, exactly once.
C4_PanicIsolated ==
    dpc = "returned" =>
        \A s \in SiteNames :
            Eligible(s) =>
                IF task[s].pc = "panicked"
                THEN ResultsFor(s) = {}
                ELSE /\ task[s].pc = "finished"
                     /\ Cardinality(ResultsFor(s)) = 1
                     /\ \A i \in ResultsFor(s) : Some(results[i]) = task[s].ret

\* C4 witness: the call returned after a task panicked in mid-probe, with the
\* results of two siblings, one spawned before it and one after.
C4_Witness ==
    /\ dpc = "returned"
    /\ \E p \in SiteNames :
          /\ task[p].pc = "panicked"
          /\ Probed(p)
          /\ \E a, b \in SiteNames :
                /\ a < p /\ p < b
                /\ ResultsFor(a) # {} /\ ResultsFor(b) # {}

\* The collection holds a result for every eligible site whose task did not
\* panic.
ResultsComplete ==
    \A s \in SiteNames :
        (Eligible(s) /\ task[s].pc # "panicked") => ResultsFor(s) # {}

\* C5: under fair scheduling search_username eventually returns, and the
\* collection it returns holds a result for every eligible site whose task did
\* not panic.
C5_EventuallyReturnsComplete == <>(dpc = "returned" /\ ResultsComplete)

\* C5 witness: a run with more eligible sites than permits has returned a
\* result for every site.
C5_Witness ==
    /\ dpc = "returned"
    /\ Len(sites_to_check) > max_concurrent
    /\ Len(results) = Len(sites_to_check)

\* The probe of s ended in a transport fault and the task returned.
Faulted(s) == Probed(s) /\ probe[s].kind = "Err" /\ HasReturned(s)

\* C6: a site whose probe request ends in a transport fault yields exactly one
\* result, with status Error and the fault's description; a run over K sites
\* whose probes all fault returns exactly K Error results.
C6_TransportFaultIsError ==
    /\ \A s \in SiteNames :
          Faulted(s) =>
              /\ IsSome(task[s].ret)
              /\ Unwrap(task[s].ret).status = "Error"
              /\ Unwrap(task[s].ret).error_message = Some(ErrToString(probe[s].err))
    /\ dpc = "returned" =>
          /\ \A s \in SiteNames :
                Faulted(s) =>
                    /\ Cardinality(ResultsFor(s)) = 1
                    /\ \A i \in ResultsFor(s) : results[i].status = "Error"
          /\ (\A s \in SiteNames : Eligible(s) => Faulted(s)) =>
                /\ Len(results) = Len(sites_to_check)
                /\ \A i \in 1..Len(results) : results[i].status = "Error"

\* C6 witness: a run whose sites all faulted has returned one Error result per
\* site, for at least two sites.
C6_Witness ==
    /\ dpc = "returned"
    /\ Len(sites_to_check) >= 2
    /\ \A s \in SiteNames : Faulted(s)
    /\ Len(results) = Len(sites_to_check)

\* The site s has a validation pattern and the identifier does not match it.
FailsPattern(s) ==
    /\ IsSome(sites[s].regex_check)
    /\ RegexNewOk(Unwrap(sites[s].regex_check))
    /\ ~IsMatch(Unwrap(sites[s].regex_check), username)

\* C7: for a site with a validation pattern that the identifier does not
\* match, no HTTP request is ever issued and the task yields status Illegal.
C7_IllegalWithoutProbe ==
    \A s \in SiteNames :
        FailsPattern(s) =>
            /\ http_log[s] = <<>>
            /\ task[s].pc \notin {"inflight", "body"}
            /\ HasReturned(s) =>
                  /\ IsSome(task[s].ret)
                  /\ Unwrap(task[s].ret).status = "Illegal"
            /\ (dpc = "returned" /\ task[s].pc = "finished") =>
                  /\ Cardinality(ResultsFor(s)) = 1
                  /\ \A i \in ResultsFor(s) : results[i].status = "Illegal"

\* C7 witness: the Illegal result of such a site has been returned, no request
\* having been made.
C7_Witness ==
    /\ dpc = "returned"
    /\ \E s \in SiteNames :
          /\ FailsPattern(s)
          /\ http_log[s] = <<>>
          /\ \E i \in ResultsFor(s) : results[i].status = "Illegal"

\* The site s has a validation pattern that does not parse.
UnparsedPattern(s) ==
    IsSome(sites[s].regex_check) /\ ~RegexNewOk(Unwrap(sites[s].regex_check))

\* The result of the descriptor info for the probe outcome o, the body text
\* being read only under the Message strategy.
ResultOf(info, s, o) ==
    IF o.kind = "Err" THEN ErrResult(info, username, s, o.err)
    ELSE OkResult(info, username, s,
                  [status |-> o.status, url |-> o.url,
                   text |-> IF info.error_type = "Message" THEN o.text ELSE None],
                  o.elapsed)

\* C8: for a site whose validation pattern does not parse, the probe is issued
\* and the result is the one the same descriptor without a pattern gives; it
\* is never Illegal.
C8_UnparsedPatternIsValid ==
    \A s \in SiteNames :
        UnparsedPattern(s) =>
            LET plain == [sites[s] EXCEPT !.regex_check = None]
            IN  /\ task[s].pc \in {"inflight", "body", "drop", "finished"} =>
                      http_log[s] = <<SelectRequest(plain, username)>>
                /\ HasReturned(s) =>
                      /\ task[s].ret = Some(ResultOf(plain, s, probe[s]))
                      /\ Unwrap(task[s].ret).status # "Illegal"

\* C8 witness: such a site, for an identifier with a digit, has returned a
\* Claimed result.
C8_Witness ==
    /\ dpc = "returned"
    /\ username = <<"a", "1">>
    /\ \E s \in SiteNames :
          /\ UnparsedPattern(s)
          /\ Probed(s)
          /\ \E i \in ResultsFor(s) : results[i].status = "Claimed"

\* The task of s received a response and returned a result for it.
Answered(s) == Probed(s) /\ probe[s].kind = "Ok" /\ HasReturned(s)

\* C9: for a StatusCode site and any response, the result is Claimed if the
\* status is 200 and Available otherwise, whatever the body.
C9_StatusCodeClaimedIff200 ==
    \A s \in SiteNames :
        (sites[s].error_type = "StatusCode" /\ Answered(s)) =>
            /\ IsSome(task[s].ret)
            /\ Unwrap(task[s].ret).status =
                  IF probe[s].status = 200 THEN "Claimed" ELSE "Available"

\* C9 witness: a StatusCode site answered 403 with a non-empty body and the
\* result returned is Available.
C9_Witness ==
    /\ dpc = "returned"
    /\ \E s \in SiteNames :
          /\ sites[s].error_type = "StatusCode"
          /\ probe[s].kind = "Ok" /\ probe[s].status = 403
          /\ probe[s].text = Some(<<"n">>)
          /\ \E i \in ResultsFor(s) : results[i].status = "Available"

\* The markers configured on site s, and whether the body holds one of them.
Markers(s) == IF IsSome(sites[s].error_msg) THEN Unwrap(sites[s].error_msg).v ELSE <<>>
BodyHasMarker(s) ==
    \E i \in 1..Len(Markers(s)) : Contains(Unwrap(probe[s].text), Markers(s)[i])

\* C10: for a Message site with at least one marker and a response whose body
\* is readable, the result is Available if the body contains a marker and
\* Claimed if it contains none, whatever the status.
C10_MessageMarkers ==
    \A s \in SiteNames :
        ( /\ sites[s].error_type = "Message"
          /\ Len(Markers(s)) >= 1
          /\ Answered(s)
          /\ IsSome(probe[s].text) ) =>
            /\ IsSome(task[s].ret)
            /\ Unwrap(task[s].ret).status =
                  IF BodyHasMarker(s) THEN "Available" ELSE "Claimed"

\* C10 witness: a Message site with two markers answered 200 with a body that
\* holds one of them, and the result returned is Available.
C10_Witness ==
    /\ dpc = "returned"
    /\ \E s \in SiteNames :
          /\ sites[s].error_type = "Message"
          /\ Len(Markers(s)) = 2
          /\ probe[s].kind = "Ok" /\ probe[s].status = 200
          /\ IsSome(probe[s].text)
          /\ BodyHasMarker(s)
          /\ \E i \in ResultsFor(s) : results[i].status = "Available"

\* The site s is a Message site with no marker configured: the field is
\* absent, or present as an empty list.
NoMarkers(s) ==
    /\ sites[s].error_type = "Message"
    /\ sites[s].error_msg \in {None, Some(Multiple(<<>>))}

\* C11: for a Message site with no marker configured (the field absent, or an
\* empty list) and any response, the result is Claimed if the status is 200
\* and Available otherwise, whatever the body.
C11_NoMarkersFallBackToStatus ==
    \A s \in SiteNames :
        (NoMarkers(s) /\ Answered(s)) =>
            /\ IsSome(task[s].ret)
            /\ Unwrap(task[s].ret).status =
                  IF probe[s].status = 200 THEN "Claimed" ELSE "Available"

\* The task of s received a response whose body could not be read.
BodyFaulted(s) == Answered(s) /\ IsNone(probe[s].text)

\* C12: for a Message site, a fault while the body of the response is read
\* yields a result with status Error that carries the fault's description.
C12_BodyFaultIsError ==
    \A s \in SiteNames :
        (sites[s].error_type = "Message" /\ BodyFaulted(s)) =>
            /\ IsSome(task[s].ret)
            /\ Unwrap(task[s].ret).status = "Error"
            /\ Unwrap(task[s].ret).error_message = Some(ErrToString(probe[s].err))

\* C13: for a Redirect site and any response, the result is Claimed if the
\* status is neither 404 nor 403 and Available otherwise.
C13_RedirectClaimedUnless404Or403 ==
    \A s \in SiteNames :
        (sites[s].error_type = "Redirect" /\ Answered(s)) =>
            /\ IsSome(task[s].ret)
            /\ Unwrap(task[s].ret).status =
                  IF probe[s].status \notin {404, 403} THEN "Claimed" ELSE "Available"

\* C13 witness: a Redirect site answered 403 and the result returned is
\* Available.
C13_Witness ==
    /\ dpc = "returned"
    /\ \E s \in SiteNames :
          /\ sites[s].error_type = "Redirect"
          /\ probe[s].kind = "Ok" /\ probe[s].status = 403
          /\ \E i \in ResultsFor(s) : results[i].status = "Available"

\* The final URL of the response to s, as the response reports it.
FinalUrl(s) == UrlToString(probe[s].url)

\* C14: for a ResponseUrl site and any response: with a miss URL configured
\* the result is Claimed if the final URL of the response differs from it and
\* Available if it is equal, whatever the status; with none configured the
\* result is Claimed if the status is 200 and Available otherwise.
C14_ResponseUrl ==
    \A s \in SiteNames :
        (sites[s].error_type = "ResponseUrl" /\ Answered(s)) =>
            /\ IsSome(task[s].ret)
            /\ Unwrap(task[s].ret).status =
                  IF IsSome(sites[s].error_url)
                  THEN IF FinalUrl(s) # Unwrap(sites[s].error_url)
                       THEN "Claimed" ELSE "Available"
                  ELSE IF probe[s].status = 200 THEN "Claimed" ELSE "Available"

\* C14 witness: a ResponseUrl site answered 200 at its miss URL and the result
\* returned is Available.
C14_Witness ==
    /\ dpc = "returned"
    /\ \E s \in SiteNames :
          /\ sites[s].error_type = "ResponseUrl"
          /\ IsSome(sites[s].error_url)
          /\ probe[s].kind = "Ok" /\ probe[s].status = 200
          /\ FinalUrl(s) = Unwrap(sites[s].error_url)
          /\ \E i \in ResultsFor(s) : results[i].status = "Available"

\* The body a POST or PUT carries: the payload, serialised, when one is
\* configured.
ExpectedBody(s) ==
    IF IsSome(sites[s].request_payload)
    THEN Some(JsonToString(Unwrap(sites[s].request_payload)))
    ELSE None

\* C15 as stated: POST and PUT descriptors issue that method with the payload
\* as the body; every other descriptor (method unset, GET or HEAD) issues HEAD
\* under StatusCode and GET otherwise.
C15_MethodSelectionAsStated ==
    \A s \in SiteNames :
        Probed(s) =>
            LET req == http_log[s][1]
                rm  == sites[s].request_method
            IN  /\ Len(http_log[s]) = 1
                /\ IF rm \in {Some("POST"), Some("PUT")}
                   THEN req.method = Unwrap(rm) /\ req.body = ExpectedBody(s)
                   ELSE /\ req.method =
                              IF sites[s].error_type = "StatusCode" THEN "HEAD" ELSE "GET"
                        /\ req.body = None

\* C15 amended: POST and PUT descriptors issue that method with the payload as
\* the body; a descriptor with the method unset or HEAD issues HEAD under
\* StatusCode and GET otherwise; a descriptor with the method GET issues GET
\* under every strategy.
C15_MethodSelection ==
    \A s \in SiteNames :
        Probed(s) =>
            LET req == http_log[s][1]
                rm  == sites[s].request_method
            IN  /\ Len(http_log[s]) = 1
                /\ IF rm \in {Some("POST"), Some("PUT")}
                   THEN req.method = Unwrap(rm) /\ req.body = ExpectedBody(s)
                   ELSE /\ req.method =
                              IF rm \in {None, Some("HEAD")} /\ sites[s].error_type = "StatusCode"
                              THEN "HEAD" ELSE "GET"
                        /\ req.body = None

\* C15 witness: a StatusCode site whose descriptor names GET was probed with
\* GET and its result returned.
C15_Witness ==
    /\ dpc = "returned"
    /\ \E s \in SiteNames :
          /\ sites[s].error_type = "StatusCode"
          /\ sites[s].request_method = Some("GET")
          /\ Len(http_log[s]) = 1
          /\ http_log[s][1].method = "GET"
          /\ ResultsFor(s) # {}

\* C16: every result of a task that dispatched its probe carries the elapsed
\* time of the exchange, whatever the outcome.
C16_ElapsedAlwaysRecorded ==
    \A s \in SiteNames :
        (Probed(s) /\ HasReturned(s)) =>
            /\ IsSome(task[s].ret)
            /\ Unwrap(task[s].ret).response_time_ms = Some(probe[s].elapsed)

\* The template with its placeholder replaced by the identifier u once: the
\* text before the placeholder, u, the text after it.
SubstitutedOnce(template, u) ==
    LET i == CHOOSE k \in 1..(Len(template) - 1) : SubSeq(template, k, k + 1) = Placeholder
    IN  SubSeq(template, 1, i - 1) \o u \o SubSeq(template, i + 2, Len(template))

\* C17: for every identifier, one holding the placeholder text included, the
\* reported profile URL is the profile template with the identifier
\* substituted once, and the probe URL is the probe template with the
\* identifier substituted once, or the reported profile URL when the site has
\* no probe template.
C17_SubstitutedOnce ==
    \A s \in SiteNames :
        /\ (Probed(s) /\ HasReturned(s)) =>
              Unwrap(task[s].ret).profile_url = SubstitutedOnce(sites[s].url, username)
        /\ Probed(s) =>
              http_log[s][1].url =
                  IF IsSome(sites[s].url_probe)
                  THEN SubstitutedOnce(Unwrap(sites[s].url_probe), username)
                  ELSE SubstitutedOnce(sites[s].url, username)

\* The call that returned last was made for a domain that had a timestamp.
Repeated == IsSome(last_call) /\ IsSome(Unwrap(last_call).last_request)

\* C18: with a delay D > 0, when wait_for is called for a domain less than D
\* after the previous call for that domain returned (and recorded its time),
\* the call returns no earlier than D after that recorded time.
C18_SecondCallWaits ==
    (delay_ms > 0 /\ Repeated) =>
        LET second == Unwrap(last_call)
            first_returned == Unwrap(second.last_request)
        IN  second.start - first_returned < delay_ms =>
                second.returned >= first_returned + delay_ms

\* C18 witness: a second call for a domain started after the first returned
\* and less than D after it, slept, and returned exactly D after it.
C18_Witness ==
    /\ delay_ms >= 2
    /\ Repeated
    /\ LET second == Unwrap(last_call)
           first_returned == Unwrap(second.last_request)
       IN  /\ second.start > first_returned
           /\ second.start - first_returned < delay_ms
           /\ second.slept
           /\ second.returned = first_returned + delay_ms

\* C19: a caller asleep inside wait_for does not hold the lock of the handle,
\* so it never keeps a call for another domain waiting for the lock.
C19_NoCrossDomainBlocking ==
    \A c \in Callers :
        caller[c].pc = "sleep" =>
            /\ lock # Some(c)
            /\ ~ \E b \in Callers :
                    /\ caller[b].pc = "write"
                    /\ caller[b].domain # caller[c].domain
                    /\ lock # None

\* A step in which a wait_for call returns.
CallReturns == \E c \in Callers : caller[c].pc # "idle" /\ caller'[c].pc = "idle"

\* C20 (one step): with a delay D > 0, a step in which a call for a domain
\* returns sets that domain's timestamp to the time of the return, leaves the
\* timestamp of every other domain as it was, and the new timestamp is at
\* least D after the one it replaces; no other step changes a timestamp.
C20_Step ==
    delay_ms > 0 =>
        IF CallReturns
        THEN LET call == Unwrap(last_call')
             IN  /\ delays'[call.domain] = Some(call.returned)
                 /\ call.returned = clock'
                 /\ \A d \in RateDomains \ {call.domain} : delays'[d] = delays[d]
                 /\ IsSome(delays[call.domain]) =>
                        call.returned >= Unwrap(delays[call.domain]) + delay_ms
        ELSE delays' = delays

\* C20: with a delay D > 0, every wait_for call, suspended or not, records the
\* time of its return as its domain's timestamp and changes no other; the
\* successive timestamps of a domain are at least D apart.
C20_Timestamps == [][C20_Step]_vars

\* C20 witness: a call for a domain that had a timestamp has returned without
\* sleeping, its time of return is the domain's new timestamp, D or more
\* after the old, and the other domain has a timestamp of its own.
C20_Witness ==
    /\ delay_ms > 0
    /\ Repeated
    /\ ~Unwrap(last_call).slept
    /\ delays[Unwrap(last_call).domain] = Some(Unwrap(last_call).returned)
    /\ \E d \in RateDomains :
          /\ d # Unwrap(last_call).domain
          /\ IsSome(delays[d])
          /\ delays[d] # delays[Unwrap(last_call).domain]

\* C21: with rate limiting enabled (delay > 0), a task issues its probe only
\* after a wait_for call for the site's domain has returned, so that the
\* domain has a timestamp and some call has been recorded.
C21_ProbeAfterWaitFor ==
    \A s \in SiteNames :
        (delay_ms > 0 /\ Probed(s)) =>
            /\ IsSome(last_call)
            /\ \E d \in RateDomains : IsSome(delays[d])

\* C22 as stated: a task whose QueryResult has been built no longer holds its
\* permit (the permit was released when the exchange finished, before the
\* result was built).
C22_ReleasedBeforeResult ==
    \A s \in SiteNames : IsSome(task[s].ret) => ~HoldsPermit(s)

\* The task of s completes in this step.
Completes(s) == task[s].pc # "finished" /\ task'[s].pc = "finished"

\* C22 amended (one step): the permit goes back to the semaphore in the step
\* in which the task completes, the result being built already and left as
\* it is; the step in which the exchange ends and the result is built
\* releases nothing.
C22_Step ==
    \A s \in SiteNames :
        /\ Completes(s) =>
              /\ permits' = permits + 1
              /\ IsSome(task[s].ret)
              /\ task'[s].ret = task[s].ret
        /\ (task[s].pc \in {"inflight", "body"} /\ task'[s].pc = "drop") =>
              /\ permits' = permits
              /\ IsSome(task'[s].ret)

\* C22 amended: each task releases its permit once check_site_internal has
\* returned the built QueryResult, as its last step before it completes.
C22_ReleasedOnCompletion == [][C22_Step]_vars

\* C22 witness: a task has completed and given its permit back while its
\* result still waits to be joined, and another task holds a permit.
C22_Witness ==
    \E s, r \in SiteNames :
        /\ task[s].pc = "finished"
        /\ IsSome(task[s].ret)
        /\ ResultsFor(s) = {}
        /\ permits >= 1
        /\ HoldsPermit(r)

\* Sites remain for which the dispatcher has not spawned a task.
SitesRemain == dpc = "running" /\ Len(handles) < Len(sites_to_check)

Running == {s \in SiteNames : task[s].pc \in {"spawned", "inflight", "body", "drop"}}

TaskStep(s) == TaskStart(s) \/ ProbeReturns(s) \/ BodyRead(s) \/ TaskFinish(s)

\* C24: a task that holds a permit can always take its next step (probe,
\* interpretation, release), however many sites wait for a permit.
C24_HolderNeverBlocked ==
    \A s \in SiteNames : HoldsPermit(s) => ENABLED TaskStep(s)

\* C24 witness: a task holds the only permit in mid-probe while the
\* dispatcher waits for a permit with two sites left.
C24_Witness ==
    /\ permits = 0
    /\ dpc = "running"
    /\ Len(sites_to_check) - Len(handles) >= 2
    /\ \E s \in SiteNames : task[s].pc = "inflight"

\* The position of the result of site s in the collection.
ResultPos(s) == CHOOSE i \in ResultsFor(s) : TRUE

\* C25 as stated: the collection is in completion order: once the task of b
\* has completed while the task of a has not, the result of b stands before
\* the result of a whenever the collection holds both.
C25_CompletionOrder ==
    \A a, b \in 1..NumSites :
        []((task[b].pc = "finished" /\ task[a].pc # "finished") =>
              []((ResultsFor(a) # {} /\ ResultsFor(b) # {}) => ResultPos(b) < ResultPos(a)))

\* The sites of the handles joined so far whose task returned a result, in the
\* order of the handles (the order in which the tasks were spawned).
JoinedWithResult ==
    SelectSeq(SubSeq(handles, 1, joined), LAMBDA s : JoinOk(s) /\ IsSome(task[s].ret))

\* C25 amended: the results stand in the order in which their tasks were
\* spawned (the order of the handles), whatever the order of completion.
C25_SpawnOrder ==
    [i \in 1..Len(results) |-> results[i].site_name] = JoinedWithResult

\* C25 witness: a run with two permits has returned the results of at least
\* two sites.
C25_Witness ==
    /\ dpc = "returned"
    /\ max_concurrent >= 2
    /\ Len(results) >= 2

\* No task panicked.
NoPanic == \A s \in SiteNames : task[s].pc # "panicked"

\* What a step leaves of the results: the collection only grows at its end,
\* and the value a task returned stays what it was.
C26_Step ==
    /\ Len(results') >= Len(results)
    /\ SubSeq(results', 1, Len(results)) = results
    /\ \A s \in SiteNames :
          (IsSome(task[s].ret) /\ task'[s].pc # "panicked") => task'[s].ret = task[s].ret

\* C26, in every state: at most one result per site, each for an eligible
\* site, for the searched identifier and equal to what the site's task
\* returned; no more results than eligible sites, and as many at the return
\* when no task panicked.
C26_State ==
    /\ \A s \in SiteNames : Cardinality(ResultsFor(s)) <= 1
    /\ \A i \in 1..Len(results) :
          /\ results[i].site_name \in SiteNames
          /\ Eligible(results[i].site_name)
          /\ results[i].username = username
          /\ task[results[i].site_name].ret = Some(results[i])
    /\ Len(results) <= Cardinality({s \in SiteNames : Eligible(s)})
    /\ (dpc = "returned" /\ NoPanic) =>
          Len(results) = Cardinality({s \in SiteNames : Eligible(s)})

\* C26: the collection of search_username holds at most one QueryResult per
\* eligible site, each for the searched identifier; its size is at most the
\* number of eligible sites and equal to it when no task panics; a result is
\* not modified after its task created it.
C26_OneResultPerSite == []C26_State /\ [][C26_Step]_vars

\* C26 witness: the call has returned fewer results than there are eligible
\* sites, a task having panicked, and at least one result.
C26_Witness ==
    /\ dpc = "returned"
    /\ ~NoPanic
    /\ Len(results) >= 1
    /\ Len(results) < Cardinality({s \in SiteNames : Eligible(s)})

\* The descriptor of s is flagged adult-content.
FlaggedNsfw(s) == sites[s].is_nsfw = Some(TRUE)

\* Site s stands in the sequence q.
InSeq(s, q) == \E i \in 1..Len(q) : q[i] = s

\* C28: a site flagged adult-content is left out before dispatch unless
\* include_nsfw is set: it is not among the sites to check, gets no task, no
\* request and no result; a site whose flag is unset or false is always
\* among the sites to check, and so is a flagged site when include_nsfw is
\* set.
C28_NsfwExcluded ==
    \A s \in SiteNames :
        /\ (FlaggedNsfw(s) /\ ~include_nsfw) =>
              /\ ~InSeq(s, sites_to_check)
              /\ ~InSeq(s, handles)
              /\ task[s] = NotSpawned
              /\ ~Probed(s)
              /\ ResultsFor(s) = {}
        /\ (dpc # "init" /\ (~FlaggedNsfw(s) \/ include_nsfw)) => InSeq(s, sites_to_check)
        /\ (dpc = "returned" /\ (~FlaggedNsfw(s) \/ include_nsfw)) => InSeq(s, handles)

\* C28 witness: a search without include_nsfw has returned; the catalog has a
\* flagged site, which was left out, a site with the flag unset and a site
\* with the flag false, both of which got their task.
C28_Witness ==
    /\ dpc = "returned"
    /\ ~include_nsfw
    /\ \E s \in SiteNames : FlaggedNsfw(s) /\ ~InSeq(s, handles)
    /\ \E s \in SiteNames : sites[s].is_nsfw = None /\ InSeq(s, handles)
    /\ \E s \in SiteNames : sites[s].is_nsfw = Some(FALSE) /\ InSeq(s, handles)

\* The number of results of the collection with one of the statuses.
WithStatus(S) == Cardinality({i \in 1..Len(results) : results[i].status \in S})

\* C27: the report SearchReport::new builds has claimed_count, available_count
\* and error_count equal to the number of results that are Claimed, Available
\* and Error, and total_sites equal to the size of the collection; the three
\* counts add up to at most the total, and to the total exactly when no
\* result is Illegal or Unknown.
C27_ReportCounts ==
    IsSome(report) =>
        LET r == Unwrap(report)
            sum == r.claimed_count + r.available_count + r.error_count
        IN  /\ r.claimed_count = WithStatus({"Claimed"})
            /\ r.available_count = WithStatus({"Available"})
            /\ r.error_count = WithStatus({"Error"})
            /\ r.total_sites = Len(results)
            /\ r.results = results
            /\ sum <= r.total_sites
            /\ (sum = r.total_sites) <=> (WithStatus({"Illegal", "Unknown"}) = 0)

\* C27 witness: a report of a collection with a Claimed, an Illegal and an
\* Unknown result, whose counts add up to less than the total.
C27_Witness ==
    /\ IsSome(report)
    /\ WithStatus({"Claimed"}) = 1
    /\ WithStatus({"Illegal"}) = 1
    /\ WithStatus({"Unknown"}) = 1
    /\ Unwrap(report).claimed_count = 1
    /\ Unwrap(report).total_sites = 3

\* The ceiling of the command line is outside 1..100.
BadCeiling == cli.max_concurrent \notin 1..100

\* C29: a run whose ceiling is outside 1..100 ends at start-up with an error
\* message (that of the ceiling unless the timeout is out of range too): the
\* catalog is never loaded, the search never starts, no task is spawned and
\* no request is issued.
C29_BadCeilingIsFatal ==
    BadCeiling =>
        /\ main_pc \in {"start", "exited"}
        /\ ~catalog_loaded
        /\ dpc = "init"
        /\ \A s \in SiteNames : task[s] = NotSpawned /\ ~Probed(s) /\ clients[s] = <<>>
        /\ main_pc = "exited" =>
              /\ Len(stderr) = 1
              /\ cli.timeout \in 1..300 =>
                    stderr[1] = "Error: Max concurrent must be between 1 and 100."

\* C29 witness: a run with ceiling 0, a username and a timeout in range has
\* ended with the message of the ceiling.
C29_Witness ==
    /\ cli.max_concurrent = 0
    /\ IsSome(cli.username)
    /\ main_pc = "exited"
    /\ stderr = <<"Error: Max concurrent must be between 1 and 100.">>

\* A request is issued for site s in this step.
Requests(s) == Len(http_log'[s]) > Len(http_log[s])

\* C30, one step of a search: the engine's HttpClient (base client, proxy,
\* use_tor, rotate_ua) is left as it is; a step that issues a request builds
\* one client for it, with the user agent of the call and the proxy of the
\* HttpClient or none, and touches the clients of no other site.
C30_Step ==
    main_pc = "search" =>
        /\ http_client' = http_client
        /\ \A s \in SiteNames :
              IF Requests(s)
              THEN /\ Len(clients'[s]) = Len(clients[s]) + 1
                   /\ SubSeq(clients'[s], 1, Len(clients[s])) = clients[s]
                   /\ LET c == clients'[s][Len(clients'[s])]
                      IN  /\ c.user_agent \in GetUserAgent(http_client)
                          /\ c.proxy \in {None, http_client.proxy}
              ELSE clients'[s] = clients[s]

\* C30: no get, head, post or put call changes the engine's HttpClient; the
\* user agent and the proxy of a call are those of a client built for that
\* call only.
C30_SharedClientUnchanged == [][C30_Step]_vars

\* C30 witness: with rotated user agents and a proxy, two requests are in
\* flight whose clients have different user agents, one of them not the
\* default of the base client.
C30_Witness ==
    /\ main_pc = "search"
    /\ http_client.rotate_ua
    /\ IsSome(http_client.proxy)
    /\ \E s, r \in SiteNames :
          /\ task[s].pc = "inflight"
          /\ task[r].pc = "inflight"
          /\ Len(clients[s]) = 1
          /\ Len(clients[r]) = 1
          /\ clients[s][1].user_agent # clients[r][1].user_agent
          /\ clients[s][1].user_agent # http_client.client.user_agent

\* C31: no step of a search changes the catalog: the map of descriptors
\* passed to search_username stays what it was, whatever the interleaving of
\* the tasks and the outcomes of the probes.
C31_CatalogUnchanged == [][sites' = sites]_vars

\* C31 witness: a search over a catalog of descriptors of different kinds has
\* returned, with a result of a probed site, an Illegal result and a task
\* that panicked.
C31_Witness ==
    /\ dpc = "returned"
    /\ ~NoPanic
    /\ \E i \in 1..Len(results) : results[i].status = "Illegal"
    /\ \E i \in 1..Len(results) : Probed(results[i].site_name)

\* C32: with delay 0 wait_for returns at once, without sleeping, and records
\* nothing: no domain ever has a timestamp and no caller ever sleeps or holds
\* the lock across a step.
C32_ZeroDelayDisabled ==
    delay_ms = 0 =>
        /\ \A d \in RateDomains : delays[d] = None
        /\ \A c \in Callers : caller[c].pc # "sleep"
        /\ lock = None
        /\ IsSome(last_call) =>
              /\ ~Unwrap(last_call).slept
              /\ Unwrap(last_call).returned = Unwrap(last_call).start
              /\ Unwrap(last_call).last_request = None

\* C32 witness: with delay 0 a call has returned, time has passed, and
\* another call is under way.
C32_Witness ==
    /\ delay_ms = 0
    /\ IsSome(last_call)
    /\ clock >= 1
    /\ \E c \in Callers : caller[c].pc = "write"

\* The permits held by tasks.
PermitsHeld == Cardinality({s \in SiteNames : HoldsPermit(s)})

\* C34: once the semaphore exists, the permits held by tasks and the permits
\* available add up to N; a panicked task holds none; when search_username
\* has returned all N permits are available.
C34_PermitConservation ==
    /\ dpc # "init" => permits + PermitsHeld = max_concurrent
    /\ \A s \in SiteNames : task[s].pc = "panicked" => ~HoldsPermit(s)
    /\ dpc = "returned" => permits = max_concurrent

\* C34 witness: a task panicked, more sites than permits were spawned all the
\* same, and the call has returned with every permit available.
C34_Witness ==
    /\ dpc = "returned"
    /\ \E i \in 1..Len(handles) :
          /\ task[handles[i]].pc = "panicked"
          /\ i + max_concurrent <= Len(handles)
          /\ task[handles[Len(handles)]].pc = "finished"
    /\ permits = max_concurrent

\* C33, one step of a task: a request is issued only by a task that has not
\* yet issued one, whose identifier passed validation, and it goes to the
\* resolved probe URL; a result other than Illegal is built only from a
\* probe that has returned, and the step that builds a result issues no
\* request.
C33_Step ==
    \A s \in SiteNames :
        /\ Requests(s) =>
              /\ task[s].pc = "spawned"
              /\ ~FailsPattern(s)
              /\ task[s].ret = None
              /\ http_log[s] = <<>>
              /\ Len(http_log'[s]) = 1
              /\ http_log'[s][1].url = ProbeUrl(sites[s], username)
        /\ (task[s].ret = None /\ IsSome(task'[s].ret)) =>
              /\ ~Requests(s)
              /\ IF Unwrap(task'[s].ret).status = "Illegal"
                 THEN task[s].pc = "spawned" /\ ~Probed(s)
                 ELSE task[s].pc \in {"inflight", "body"} /\ Probed(s)

\* C33, every state: a site has at most one request; a task that awaits its
\* response or the body has issued it and has no result yet; a task that has
\* not started has neither.
C33_State ==
    \A s \in SiteNames :
        /\ Len(http_log[s]) <= 1
        /\ task[s].pc \in {"inflight", "body"} => (Probed(s) /\ task[s].ret = None)
        /\ task[s].pc \in {"none", "spawned"} => (~Probed(s) /\ task[s].ret = None)

\* C33: within one site's task the steps follow one another: validation, then
\* the resolved request, then the interpretation of its outcome; at most one
\* request per site per search.
C33_StepsInSequence == []C33_State /\ [][C33_Step]_vars

\* C33 witness: a site with a validation pattern that the identifier matches
\* and a probe template of its own was probed once, its body read, and the
\* result built.
C33_Witness ==
    \E s \in SiteNames :
        /\ IsSome(sites[s].regex_check)
        /\ ~FailsPattern(s)
        /\ ~UnparsedPattern(s)
        /\ sites[s].error_type = "Message"
        /\ Len(http_log[s]) = 1
        /\ HasReturned(s)
        /\ Unwrap(task[s].ret).status = "Claimed"

\* The shape the status of a result demands of its optional fields.
WellShaped(r) ==
    /\ r.status # "Unknown"
    /\ r.status \in {"Claimed", "Available"} =>
          (IsSome(r.http_status) /\ r.error_message = None)
    /\ r.status = "Error" =>
          (IsSome(r.error_message) /\ r.http_status = None)
    /\ r.status = "Illegal" =>
          /\ r.profile_url = <<>>
          /\ r.http_status = None
          /\ r.error_message = None
          /\ r.response_time_ms = None

\* C37: every result a task returns and every result search_username
\* collects has a status other than Unknown; Claimed and Available carry the
\* HTTP status and no error text; Error carries the error text and no HTTP
\* status; Illegal has an empty profile URL and none of HTTP status, error
\* text and elapsed time.
C37_ResultShape ==
    /\ \A s \in SiteNames : IsSome(task[s].ret) => WellShaped(Unwrap(task[s].ret))
    /\ \A i \in 1..Len(results) : WellShaped(results[i])

\* C37 witness: a result was collected whose response had a status other
\* than 200 and came from a descriptor with a validation pattern.
C37_Witness ==
    /\ dpc = "returned"
    /\ \E i \in 1..Len(results) :
          /\ results[i].status \in {"Claimed", "Available"}
          /\ results[i].http_status # Some(OK)
          /\ IsSome(sites[results[i].site_name].regex_check)

\* The result of site s as its own descriptor, the identifier and its own
\* probe outcome give it.
OwnResult(s) ==
    IF FailsPattern(s) THEN IllegalResult(sites[s], username, s)
    ELSE ResultOf(sites[s], s, probe[s])

\* The eligible sites whose task did not panic.
Survivors == {s \in SiteNames : Eligible(s) /\ task[s].pc # "panicked"}

\* C36: whatever the interleaving and the ceiling, the result a task returns
\* is the one its own descriptor, the identifier and its own probe outcome
\* give, and the set of results search_username returns is the set of those
\* results over the eligible sites whose task did not panic.
C36_ResultsDetermined ==
    /\ \A s \in SiteNames : HasReturned(s) => task[s].ret = Some(OwnResult(s))
    /\ dpc = "returned" =>
          {results[i] : i \in 1..Len(results)} = {OwnResult(s) : s \in Survivors}

\* C36 witness: with two permits, three sites of different kinds were in the
\* run and the call returned a result for each of them.
C36_Witness ==
    /\ dpc = "returned"
    /\ max_concurrent = 2
    /\ Cardinality(Survivors) = 3
    /\ Cardinality({results[i].status : i \in 1..Len(results)}) >= 2
    /\ Cardinality({sites[s].error_type : s \in Survivors}) >= 2

\* Some site of the catalog passes the filter.
SomeEligible == \E s \in SiteNames : Eligible(s)

\* C35: an engine built with ceiling 0 is built without error and can be
\* searched with; once search_username is called on it with at least one
\* eligible site, the semaphore has no permit, no task is ever spawned, no
\* request is ever issued, nothing is collected and the call never returns.
C35_ZeroCeilingHangs ==
    (max_concurrent = 0 /\ SomeEligible) =>
        /\ dpc \in {"init", "running"}
        /\ permits = 0
        /\ handles = <<>>
        /\ \A s \in SiteNames : task[s] = NotSpawned /\ ~Probed(s) /\ clients[s] = <<>>
        /\ results = <<>>

\* C35 witness: search_username was called on an engine with ceiling 0, two
\* sites or more wait to be spawned.
C35_Witness ==
    /\ max_concurrent = 0
    /\ dpc = "running"
    /\ Len(sites_to_check) >= 2

\* The proxy the command line asks for, if any.
ConfiguredProxy == IF cli.tor THEN Some(TorProxy) ELSE cli.proxy

\* C38: in a run with --tor or --proxy every request is sent with a client
\* that goes through the configured proxy: none is sent directly.
C38_EveryRequestThroughProxy ==
    IsSome(ConfiguredProxy) =>
        \A s \in SiteNames : \A i \in 1..Len(clients[s]) :
            clients[s][i].proxy = ConfiguredProxy

\* C39: the timeout of the client each request is sent with is the --timeout
\* of the run.
C39_ProbeTimeoutIsConfigured ==
    \A s \in SiteNames : \A i \in 1..Len(clients[s]) :
        clients[s][i].timeout = cli.timeout

\* The email of the command line has no '@'.
EmailWithoutAt == IsSome(cli.email) /\ ~Contains(Unwrap(cli.email), <<"@">>)

\* C40: when the email of the command line has no '@', main rejects it
\* before any probe: no request is ever issued to an email service.
C40_EmailWithoutAtNeverProbed ==
    EmailWithoutAt => \A s \in SiteNames : ~Probed(s)

====
